---------------------------- MODULE Spec2Model ----------------------------
(***************************************************************************)
(* The Spirulina cultivation dashboard (Dashboard component) and the pure  *)
(* derivation functions it applies to an analysis response.                *)
(*                                                                         *)
(* Numbers are fixed-point integers in units of 1/Scale (four decimals).   *)
(* Strings are sequences of symbols: a symbol is one character, or a text  *)
(* of several characters written as one symbol where the program never     *)
(* looks inside it.                                                        *)
(*                                                                         *)
(* The local constants of a function of the source are parameters of       *)
(* helper operators here (MetricsOf, DeriveFrom, ...), one helper per      *)
(* stage of the function.                                                  *)
(***************************************************************************)
EXTENDS Integers, Sequences, FiniteSets, TLC

VARIABLES
    locationText,         \* useState("")            Dashboard state
    coordinates,          \* useState(null)
    isLoading,            \* useState(false)
    error,                \* useState(null)
    siteMetrics,          \* useState(null)
    proteinPrediction,    \* useState(null)
    growthSeries,         \* useState(DEFAULT_GROWTH_SERIES)
    reportLocationLabel,  \* useState("")
    phdReport,            \* useState("")
    hasRunAnalysis,       \* useState(false)
    view,                 \* "mounted", "away" (navigated away) or "crashed" (a render threw)
    instance,             \* number of the Dashboard instance that is (or was last) mounted
    inflight,             \* analyzeSite requests awaiting their response
    started,              \* number of requests issued so far
    lastAttempt,          \* history: the latest handleAnalyze invocation of this instance
    discarded,            \* history: completions that found their instance unmounted
    probe                 \* a call of one pure function: its argument and its result

dashboardVars == <<locationText, coordinates, isLoading, error, siteMetrics,
                   proteinPrediction, growthSeries, reportLocationLabel, phdReport,
                   hasRunAnalysis>>
\* What an analysis derives from its response.
derivedVars == <<phdReport, reportLocationLabel, siteMetrics, proteinPrediction,
                 growthSeries>>
hostVars == <<view, instance, inflight, started, lastAttempt, discarded>>
vars == <<locationText, coordinates, isLoading, error, siteMetrics,
          proteinPrediction, growthSeries, reportLocationLabel, phdReport,
          hasRunAnalysis, view, instance, inflight, started, lastAttempt, discarded,
          probe>>

Scale == 10^4

(***************************************************************************)
(* JavaScript values.                                                      *)
(***************************************************************************)
Undef == [t |-> "undefined"]
Null == [t |-> "null"]
Bool(b) == [t |-> "boolean", v |-> b]
Num(n) == [t |-> "number", v |-> n]
Str(s) == [t |-> "string", v |-> s]
Arr(a) == [t |-> "array", v |-> a]
Obj(f) == [t |-> "object", v |-> f]
EmptyObject == Obj([k \in {} |-> Undef])

\* The result of Number(x): a finite number, NaN or an infinity.
Fin(n) == [k |-> "fin", v |-> n]
NaN == [k |-> "nan", v |-> 0]
Infinite == [k |-> "inf", v |-> 0]
IsFinite(n) == n.k = "fin"

IsNullish(x) == x.t \in {"undefined", "null"}

\* a ?? b
Nullish(a, b) == IF IsNullish(a) THEN b ELSE a

\* o.key for a non-nullish o, and o?.key for any o.
Get(o, key) == IF o.t = "object" /\ key \in DOMAIN o.v THEN o.v[key] ELSE Undef
OptGet(o, key) == IF IsNullish(o) THEN Undef ELSE Get(o, key)

\* Boolean(x)
Truthy(x) ==
    CASE x.t \in {"undefined", "null"} -> FALSE
      [] x.t = "boolean" -> x.v
      [] x.t = "number" -> x.v # 0
      [] x.t = "string" -> Len(x.v) > 0
      [] OTHER -> TRUE

Min(a, b) == IF a < b THEN a ELSE b
Max(a, b) == IF a > b THEN a ELSE b
Abs(a) == IF a < 0 THEN -a ELSE a

Digits == <<"0", "1", "2", "3", "4", "5", "6", "7", "8", "9">>
IsDigit(c) == \E i \in 1..10 : Digits[i] = c
DigitVal(c) == (CHOOSE i \in 1..10 : Digits[i] = c) - 1
IsSpace(c) == c \in {" ", "\n", "\t"}

RECURSIVE TrimStart(_)
TrimStart(s) == IF s # <<>> /\ IsSpace(Head(s)) THEN TrimStart(Tail(s)) ELSE s
RECURSIVE TrimEnd(_)
TrimEnd(s) ==
    IF s # <<>> /\ IsSpace(s[Len(s)]) THEN TrimEnd(SubSeq(s, 1, Len(s) - 1)) ELSE s
\* String.prototype.trim
Trim(s) == TrimEnd(TrimStart(s))

RECURSIVE DigitRun(_)
\* The length of the longest prefix of s made of digits.
DigitRun(s) == IF s # <<>> /\ IsDigit(Head(s)) THEN 1 + DigitRun(Tail(s)) ELSE 0
RECURSIVE DigitsValue(_)
DigitsValue(s) ==
    IF s = <<>> THEN 0 ELSE 10 * DigitsValue(SubSeq(s, 1, Len(s) - 1)) + DigitVal(s[Len(s)])
RECURSIVE FractionValue(_, _)
\* The first `places` decimals of the digit string s, as an integer.
FractionValue(s, places) ==
    IF places = 0 THEN 0
    ELSE (IF s = <<>> THEN 0 ELSE DigitVal(Head(s))) * 10^(places - 1)
         + FractionValue(IF s = <<>> THEN s ELSE Tail(s), places - 1)

\* The value of an unsigned decimal literal: intPart are its leading digits and
\* afterInt is what follows them (nothing, or a point and digits).
DecimalValue(intPart, afterInt) ==
    IF afterInt = <<>>
    THEN (IF intPart # <<>> THEN Fin(DigitsValue(intPart) * Scale) ELSE NaN)
    ELSE IF /\ Head(afterInt) = "."
            /\ DigitRun(Tail(afterInt)) = Len(afterInt) - 1
            /\ Len(intPart) + Len(afterInt) > 1
         THEN Fin(DigitsValue(intPart) * Scale + FractionValue(Tail(afterInt), 4))
         ELSE NaN

SplitDecimal(rest, intLen) ==
    DecimalValue(SubSeq(rest, 1, intLen), SubSeq(rest, intLen + 1, Len(rest)))

UnsignedToNumber(rest) ==
    IF rest = <<"Infinity">> THEN Infinite ELSE SplitDecimal(rest, DigitRun(rest))

Negate(n) == IF n.k = "fin" THEN Fin(-n.v) ELSE n

TrimmedToNumber(body) ==
    IF body = <<>> THEN Fin(0)
    ELSE IF Head(body) = "-" THEN Negate(UnsignedToNumber(Tail(body)))
    ELSE UnsignedToNumber(IF Head(body) = "+" THEN Tail(body) ELSE body)

\* Number(s) for a string s: the trimmed text is empty (0), a decimal literal
\* (sign, digits, point, digits), Infinity, or not a number.
StringToNumber(s) == TrimmedToNumber(Trim(s))

\* Number(x). An array goes through its string form: [] is "", a one-element
\* array is its element's string form, a longer one holds a comma; an object is
\* "[object Object]".
ToNumber(x) ==
    CASE x.t = "undefined" -> NaN
      [] x.t = "null" -> Fin(0)
      [] x.t = "boolean" -> Fin(IF x.v THEN Scale ELSE 0)
      [] x.t = "number" -> Fin(x.v)
      [] x.t = "string" -> StringToNumber(x.v)
      [] x.t = "array" ->
            IF x.v = <<>> THEN Fin(0)
            ELSE IF Len(x.v) > 1 THEN NaN
            ELSE IF IsNullish(x.v[1]) THEN Fin(0)
            ELSE IF x.v[1].t = "number" THEN Fin(x.v[1].v)
            ELSE IF x.v[1].t = "string" THEN StringToNumber(x.v[1].v)
            ELSE NaN
      [] OTHER -> NaN

\* x rounded to a multiple of unit, halves away from zero (Number.prototype.toFixed).
RoundTo(x, unit) ==
    (IF x < 0 THEN -1 ELSE 1) * ((Abs(x) + unit \div 2) \div unit) * unit

(***************************************************************************)
(* Dashboard: extractSiteMetrics                                           *)
(***************************************************************************)
TemperatureKeys == <<"temperature", "avg_temperature", "T2M">>
RadiationKeys == <<"solar_radiation", "radiation", "ALLSKY_SFC_SW_DWN">>
PhKeys == <<"initial_pH", "ph", "pH">>
SalinityKeys == <<"salinity", "SALINITY">>

\* analysisRoot?.analysis ?? analysisRoot ?? {}
InnerOf(analysisRoot) ==
    Nullish(OptGet(analysisRoot, "analysis"), Nullish(analysisRoot, EmptyObject))

\* inner.section ?? {}
SectionOf(inner, section) == Nullish(Get(inner, section), EmptyObject)

RECURSIVE FirstDefinedFromLast(_, _, _)
\* A variant of FirstDefined with the keys in the opposite priority.
FirstDefinedFromLast(o, keys, i) ==
    IF i = Len(keys) THEN Get(o, keys[1])
    ELSE Nullish(Get(o, keys[Len(keys) + 1 - i]), FirstDefinedFromLast(o, keys, i + 1))

RECURSIVE FirstDefined(_, _, _)
\* o[keys[i]] ?? o[keys[i+1]] ?? ... ?? o[keys[Len(keys)]]
FirstDefined(o, keys, i) ==
    IF i = Len(keys) THEN Get(o, keys[i])
    ELSE Nullish(Get(o, keys[i]), FirstDefined(o, keys, i + 1))

\* The isFinite test of extractSiteMetrics and its result.
MetricsOf(temperature, radiation, ph, salinity) ==
    IF \/ ~IsFinite(temperature)
       \/ ~IsFinite(radiation)
       \/ ~IsFinite(ph)
       \/ ~IsFinite(salinity)
    THEN Null
    ELSE [temperature |-> temperature, ph |-> ph,
          radiation |-> radiation, salinity |-> salinity]

MetricsFrom(climate, water) ==
    MetricsOf(ToNumber(FirstDefined(climate, TemperatureKeys, 1)),
              ToNumber(FirstDefined(climate, RadiationKeys, 1)),
              ToNumber(FirstDefined(water, PhKeys, 1)),
              ToNumber(FirstDefined(water, SalinityKeys, 1)))

extractSiteMetrics(analysisRoot) ==
    MetricsFrom(SectionOf(InnerOf(analysisRoot), "climate"),
                SectionOf(InnerOf(analysisRoot), "water_profile"))

(***************************************************************************)
(* Dashboard: extractProteinPrediction                                     *)
(***************************************************************************)
bands == <<"Low", "Medium", "High">>

\* Number(confidence[0]) || 0
OrZero(first) ==
    IF first.k = "nan" \/ (first.k = "fin" /\ first.v = 0) THEN Fin(0) ELSE first

\* One step of confidence.forEach: best = [maxIdx, maxVal], num = Number(v).
ScanStep(best, num, idx) ==
    IF IsFinite(num) /\ best.maxVal.k = "fin" /\ num.v > best.maxVal.v
    THEN [maxIdx |-> idx, maxVal |-> num]
    ELSE best

RECURSIVE ConfidenceScan(_, _, _)
\* confidence.forEach from the 1-based position pos on.
ConfidenceScan(confidence, pos, best) ==
    IF pos > Len(confidence) THEN best
    ELSE ConfidenceScan(confidence, pos + 1,
                        ScanStep(best, ToNumber(confidence[pos]), pos - 1))

\* The prediction from the running maximum.
PredictionOf(best) ==
    [level |-> bands[Min(best.maxIdx, Len(bands) - 1) + 1],
     score |-> RoundTo(IF IsFinite(best.maxVal) THEN best.maxVal.v * 100 ELSE 0,
                       Scale \div 10)]

\* Tier 1: the branch taken for an array of at least three entries.
ConfidenceTier(confidence) ==
    PredictionOf(ConfidenceScan(confidence, 1,
                                [maxIdx |-> 0, maxVal |-> OrZero(ToNumber(confidence[1]))]))

\* Tier 2: banding of a finite raw value.
BandTier(raw) ==
    [level |-> IF raw < 30 * Scale THEN "Low"
               ELSE IF raw < 70 * Scale THEN "Medium"
               ELSE "High",
     score |-> 70 * Scale]

STATUS_INVALID == Str(<<"I", "N", "V", "A", "L", "I", "D">>)
STATUS_MARGINAL == Str(<<"M", "A", "R", "G", "I", "N", "A", "L">>)
STATUS_VALID == Str(<<"V", "A", "L", "I", "D">>)
STATUS_UNKNOWN == Str(<<"U", "N", "K", "N", "O", "W", "N">>)

\* A variant of StatusTier whose last branch is the Low band instead of null.
StatusTierDefaultLow(status) ==
    IF status = STATUS_MARGINAL THEN [level |-> "Medium", score |-> 65 * Scale]
    ELSE IF status = STATUS_VALID THEN [level |-> "High", score |-> 80 * Scale]
    ELSE [level |-> "Low", score |-> 60 * Scale]

\* Tier 3: cultivation_status as a proxy.
StatusTier(status) ==
    IF status = STATUS_INVALID THEN [level |-> "Low", score |-> 60 * Scale]
    ELSE IF status = STATUS_MARGINAL THEN [level |-> "Medium", score |-> 65 * Scale]
    ELSE IF status = STATUS_VALID THEN [level |-> "High", score |-> 80 * Scale]
    ELSE Null

\* A variant of PredictionFrom that tries the numeric banding before the
\* confidence vector.
PredictionFromBandFirst(confidence, raw, status) ==
    IF IsFinite(raw) THEN BandTier(raw.v)
    ELSE IF confidence.t = "array" /\ Len(confidence.v) >= 3
    THEN ConfidenceTier(confidence.v)
    ELSE StatusTier(status)

\* The three tiers in the order of the source.
PredictionFrom(confidence, raw, status) ==
    IF confidence.t = "array" /\ Len(confidence.v) >= 3
    THEN ConfidenceTier(confidence.v)
    ELSE IF IsFinite(raw) THEN BandTier(raw.v)
    ELSE StatusTier(status)

BiomassOf(analysisRoot) == SectionOf(InnerOf(analysisRoot), "biomass_prediction")

extractProteinPrediction(analysisRoot) ==
    PredictionFrom(Get(BiomassOf(analysisRoot), "confidence"),
                   ToNumber(Get(BiomassOf(analysisRoot), "biomass_prediction")),
                   Get(InnerOf(analysisRoot), "cultivation_status"))

(***************************************************************************)
(* Dashboard: growth series.  doublingTime is held in units of 10^-6 day.  *)
(***************************************************************************)
Micro == 10^6

IDEAL_METRICS ==
    [temperature |-> 30 * Scale, ph |-> 9 * Scale, radiation |-> 16 * Scale,
     salinity |-> 3 * Scale]

\* Math.sin(idx / 2) * 0.25 for idx = 0..13, in units of 10^-6.
DefaultSeasonal ==
    <<0, 119856, 210368, 249374, 227324, 149618, 35280, -87696, -189201,
      -244383, -239731, -176385, -69854, 53780>>

\* Math.sin(day / 2.5) * 0.1 for day = 1..14, in units of 10^-6.
Seasonal ==
    <<38942, 71736, 93204, 99957, 90930, 67546, 33499, -5837, -44252, -75680,
      -95160, -99616, -88345, -63127>>

DEFAULT_GROWTH_SERIES ==
    [idx \in 1..14 |->
        [day |-> idx, doublingTime |-> 21 * (Micro \div 10) + DefaultSeasonal[idx]]]

\* A variant of Penalty on the signed differences, without Math.abs.
PenaltySigned(metrics) ==
    (metrics.temperature.v - IDEAL_METRICS.temperature) * 3
    + (metrics.radiation.v - IDEAL_METRICS.radiation) * 2

\* tempDelta * 0.03 + radDelta * 0.02 in units of 10^-6: a delta is in units of
\* 10^-4, so delta * 0.03 is delta * 3 * 10^-6.
Penalty(metrics) ==
    Abs(metrics.temperature.v - IDEAL_METRICS.temperature) * 3
    + Abs(metrics.radiation.v - IDEAL_METRICS.radiation) * 2

\* A variant of BaseDoubling without the Math.min(3.5, ...) cap.
BaseDoublingUncapped(penalty) == Max(12 * (Micro \div 10), 18 * (Micro \div 10) + penalty)

\* Math.max(1.2, Math.min(3.5, 1.8 + penalty))
BaseDoubling(penalty) ==
    Max(12 * (Micro \div 10), Min(35 * (Micro \div 10), 18 * (Micro \div 10) + penalty))

\* A variant of SeriesAround with day = idx in place of day = idx + 1: the days
\* run from 0 to 13.
SeriesFromDayZero(baseDoubling) ==
    [idx \in 1..14 |->
        [day |-> idx - 1,
         doublingTime |-> RoundTo(baseDoubling + Seasonal[idx], Micro \div 100)]]

\* Array.from({ length: 14 }, ...) around baseDoubling.
SeriesAround(baseDoubling) ==
    [idx \in 1..14 |->
        [day |-> idx,
         doublingTime |-> RoundTo(baseDoubling + Seasonal[idx], Micro \div 100)]]

generateGrowthSeriesFromMetrics(metrics) ==
    IF metrics = Null THEN DEFAULT_GROWTH_SERIES
    ELSE SeriesAround(BaseDoubling(Penalty(metrics)))

(***************************************************************************)
(* Dashboard: text of numbers and of the location                          *)
(***************************************************************************)
RECURSIVE NatDigits(_)
NatDigits(n) ==
    IF n < 10 THEN <<Digits[n + 1]>> ELSE NatDigits(n \div 10) \o <<Digits[(n % 10) + 1]>>
RECURSIVE PadDigits(_, _)
PadDigits(n, width) ==
    IF width = 0 THEN <<>> ELSE PadDigits(n \div 10, width - 1) \o <<Digits[(n % 10) + 1]>>

\* The text of q / 10^d with d decimals.
FixedText(negative, q, d) ==
    (IF negative THEN <<"-">> ELSE <<>>)
    \o NatDigits(q \div 10^d)
    \o (IF d > 0 THEN <<".">> \o PadDigits(q % 10^d, d) ELSE <<>>)

\* x.toFixed(d) for d <= 4.
ToFixed(x, d) == FixedText(x < 0, RoundTo(Abs(x), 10^(4 - d)) \div 10^(4 - d), d)

\* `Lat ${coords.lat.toFixed(3)}, Lng ${coords.lng.toFixed(3)}`
LatLngText(coords) ==
    <<"L", "a", "t", " ">> \o ToFixed(coords.lat, 3)
    \o <<",", " ", "L", "n", "g", " ">> \o ToFixed(coords.lng, 3)

\* "Selected Site"
SELECTED_SITE ==
    <<"S", "e", "l", "e", "c", "t", "e", "d", " ", "S", "i", "t", "e">>

\* The location sent to the service.
synthesizedLocation(text, coords) ==
    IF coords # Null
    THEN (IF Len(text) > 0 THEN text ELSE SELECTED_SITE)
         \o <<" ", "(">> \o ToFixed(coords.lat, 3) \o <<",", " ">>
         \o ToFixed(coords.lng, 3) \o <<")">>
    ELSE Trim(text)

VALIDATION_MESSAGE ==
    Str(<<"Please provide a location name or select a point on the map.">>)
GENERIC_MESSAGE ==
    Str(<<"Unable to analyze this site at the moment. Please try again.">>)

\* String(x) of an array element in join: a nullish one is "". The inputs hold
\* strings and nullish elements only.
ElementText(x) ==
    IF x.t = "string" THEN x.v ELSE IF IsNullish(x) THEN <<>> ELSE <<"[object]">>

RECURSIVE JoinElements(_, _)
\* Array.prototype.join
JoinElements(a, sep) ==
    IF a = <<>> THEN <<>>
    ELSE IF Len(a) = 1 THEN ElementText(Head(a))
    ELSE ElementText(Head(a)) \o sep \o JoinElements(Tail(a), sep)

\* payload.analysis ?? payload.data ?? payload
MlWrapperOf(payload) ==
    Nullish(Get(payload, "analysis"), Nullish(Get(payload, "data"), payload))

\* mlWrapper?.analysis ?? mlWrapper ?? {}
AnalysisBlockOf(mlWrapper) ==
    Nullish(OptGet(mlWrapper, "analysis"), Nullish(mlWrapper, EmptyObject))

\* formatted_text?.join("\n\n"): undefined for a nullish formatted_text. For a
\* value that is neither nullish nor an array, `.join` is no function and the
\* call raises a TypeError (JoinThrows).
JoinThrows(formatted) == ~IsNullish(formatted) /\ formatted.t # "array"
Joined(formatted) ==
    IF formatted.t = "array" THEN Str(JoinElements(formatted.v, <<"\n", "\n">>)) ELSE Undef

\* rawSummary
RawSummary(analysisBlock) ==
    Nullish(Joined(OptGet(analysisBlock, "formatted_text")),
            Nullish(OptGet(analysisBlock, "summary"), Str(<<>>)))

\* A variant of DerivedOf that leaves the growth series at its default.
DerivedOfDefaultSeries(mlWrapper, extractedMetrics, location) ==
    [threw |-> JoinThrows(OptGet(AnalysisBlockOf(mlWrapper), "formatted_text")),
     phdReport |-> RawSummary(AnalysisBlockOf(mlWrapper)),
     reportLocationLabel |-> Nullish(OptGet(mlWrapper, "location"), Str(location)),
     siteMetrics |-> extractedMetrics,
     proteinPrediction |-> extractProteinPrediction(mlWrapper),
     growthSeries |-> DEFAULT_GROWTH_SERIES]

\* What handleAnalyze sets from mlWrapper, given the metrics it extracted.
DerivedOf(mlWrapper, extractedMetrics, location) ==
    [threw |-> JoinThrows(OptGet(AnalysisBlockOf(mlWrapper), "formatted_text")),
     phdReport |-> RawSummary(AnalysisBlockOf(mlWrapper)),
     reportLocationLabel |-> Nullish(OptGet(mlWrapper, "location"), Str(location)),
     siteMetrics |-> extractedMetrics,
     proteinPrediction |-> extractProteinPrediction(mlWrapper),
     growthSeries |-> generateGrowthSeriesFromMetrics(extractedMetrics)]

DeriveFrom(mlWrapper, location) ==
    DerivedOf(mlWrapper, extractSiteMetrics(mlWrapper), location)

\* What handleAnalyze computes from response.data (the try block after the await).
Derive(data, location) == DeriveFrom(MlWrapperOf(Nullish(data, EmptyObject)), location)

\* The render after a state change raises: cleanMarkdownBold(phdReport) calls
\* input.replace on a truthy value that is no string.
RenderThrows(report) == Truthy(report) /\ report.t # "string"

(***************************************************************************)
(* Dashboard: state and handlers                                           *)
(***************************************************************************)
\* Invocations of handleAnalyze that issue a request, and mounts of the Dashboard.
MaxCalls == 2
MaxMounts == 2

\* What the user may type, and where the user may click on the map.
TextInputs == {<<>>, <<" ", " ">>, <<"P", "u", "n", "e">>}
Points == {[lat |-> 185204, lng |-> 738567]}

STR_NASHIK == Str(<<"N", "a", "s", "h", "i", "k">>)
NARRATIVE ==
    Arr(<<Str(<<"*", "*", "S", "i", "t", "e", "*", "*", " ", "o", "k">>),
          Str(<<"*", " ", "A", "e", "r", "a", "t", "e">>)>>)

\* A complete analysis object.
FullAnalysis ==
    Obj([location |-> STR_NASHIK,
         climate |-> Obj([temperature |-> Num(285 * (Scale \div 10)),
                          solar_radiation |-> Num(18 * Scale)]),
         water_profile |-> Obj([initial_pH |-> Num(92 * (Scale \div 10)),
                                salinity |-> Num(25 * (Scale \div 10))]),
         biomass_prediction |-> Obj([confidence |-> Arr(<<Num(2000), Num(5000), Num(3000)>>),
                                     biomass_prediction |-> Num(55 * Scale)]),
         cultivation_status |-> STATUS_VALID,
         formatted_text |-> NARRATIVE])

\* An analysis of an extreme site under the historical key names, with a summary
\* in place of formatted_text and no model output.
ExtremeAnalysis ==
    Obj([location |-> STR_NASHIK,
         climate |-> Obj([T2M |-> Num(100 * Scale),
                          ALLSKY_SFC_SW_DWN |-> Str(<<"4", "0">>)]),
         water_profile |-> Obj([pH |-> Num(7 * Scale), SALINITY |-> Num(9 * Scale)]),
         cultivation_status |-> STATUS_INVALID,
         summary |-> Str(<<"T", "o", "o", " ", "h", "o", "t">>)])

\* An analysis with a protein signal and no complete metrics.
PartialAnalysis ==
    Obj([location |-> STR_NASHIK,
         biomass_prediction |-> Obj([biomass_prediction |-> Num(25 * Scale)]),
         climate |-> Obj([temperature |-> Num(30 * Scale)])])

\* Bodies that are no object, or an object without any of the fields.
ShapelessBodies ==
    {EmptyObject, Null, Str(<<"o", "o", "p", "s">>), Num(5 * Scale), Arr(<<>>)}

\* Bodies with a field of the wrong type.
MistypedBodies ==
    {Obj([formatted_text |-> Str(<<"t", "e", "x", "t">>)]),
     Obj([location |-> STR_NASHIK, summary |-> Num(42 * Scale)])}

\* The bodies (response.data) the service may answer with.
ResponseBodies ==
    {FullAnalysis,
     Obj([analysis |-> FullAnalysis]),
     Obj([data |-> ExtremeAnalysis]),
     Obj([analysis |-> Obj([analysis |-> ExtremeAnalysis])]),
     PartialAnalysis}
    \cup ShapelessBodies \cup MistypedBodies

DashboardInit ==
    /\ locationText = <<>>
    /\ coordinates = Null
    /\ isLoading = FALSE
    /\ error = Null
    /\ siteMetrics = Null
    /\ proteinPrediction = Null
    /\ growthSeries = DEFAULT_GROWTH_SERIES
    /\ reportLocationLabel = Str(<<>>)
    /\ phdReport = Str(<<>>)
    /\ hasRunAnalysis = FALSE

HostInit ==
    /\ view = "mounted"
    /\ instance = 1
    /\ inflight = {}
    /\ started = 0
    /\ lastAttempt = [id |-> 0, outcome |-> "none"]
    /\ discarded = 0

Init == DashboardInit /\ HostInit /\ probe = [fn |-> "none", arg |-> Undef, ret |-> Undef, done |-> TRUE]

\* Input onChange: setLocationText(e.target.value)
SetLocationText(text) ==
    /\ view = "mounted"
    /\ locationText' = text
    /\ UNCHANGED <<coordinates, isLoading, error, siteMetrics, proteinPrediction,
                   growthSeries, reportLocationLabel, phdReport, hasRunAnalysis,
                   hostVars, probe>>

\* MapClickHandler onSelect
MapClick(coords) ==
    /\ view = "mounted"
    /\ coordinates' = coords
    /\ locationText' = IF Len(locationText) = 0 THEN LatLngText(coords) ELSE locationText
    /\ UNCHANGED <<isLoading, error, siteMetrics, proteinPrediction, growthSeries,
                   reportLocationLabel, phdReport, hasRunAnalysis, hostVars, probe>>

\* A variant of ButtonEnabled whose disabled attribute leaves isLoading out.
ButtonEnabledWhileLoading == ~(Len(locationText) = 0 /\ coordinates = Null)

\* The Run Site Suitability button is enabled: not
\* disabled={isLoading || (!locationText && !coordinates)}.
ButtonEnabled == ~(isLoading \/ (Len(locationText) = 0 /\ coordinates = Null))

\* A variant of handleAnalyze without setIsLoading(true).
handleAnalyzeWithoutLoading ==
    /\ view = "mounted"
    /\ ButtonEnabled
    /\ started < MaxCalls
    /\ IF Len(Trim(locationText)) = 0 /\ coordinates = Null
       THEN /\ error' = VALIDATION_MESSAGE
            /\ lastAttempt' = [id |-> 0, outcome |-> "rejected"]
            /\ UNCHANGED <<isLoading, inflight, started>>
       ELSE /\ UNCHANGED isLoading
            /\ error' = Null
            /\ started' = started + 1
            /\ inflight' = inflight \cup
                  {[id |-> started + 1, instance |-> instance,
                    location |-> synthesizedLocation(locationText, coordinates)]}
            /\ lastAttempt' = [id |-> started + 1, outcome |-> "pending"]
    /\ UNCHANGED <<locationText, coordinates, siteMetrics, proteinPrediction,
                   growthSeries, reportLocationLabel, phdReport, hasRunAnalysis,
                   view, instance, discarded, probe>>

\* A variant of handleAnalyze without setError(null).
handleAnalyzeKeepingError ==
    /\ view = "mounted"
    /\ ButtonEnabled
    /\ started < MaxCalls
    /\ IF Len(Trim(locationText)) = 0 /\ coordinates = Null
       THEN /\ error' = VALIDATION_MESSAGE
            /\ lastAttempt' = [id |-> 0, outcome |-> "rejected"]
            /\ UNCHANGED <<isLoading, inflight, started>>
       ELSE /\ isLoading' = TRUE
            /\ UNCHANGED error
            /\ started' = started + 1
            /\ inflight' = inflight \cup
                  {[id |-> started + 1, instance |-> instance,
                    location |-> synthesizedLocation(locationText, coordinates)]}
            /\ lastAttempt' = [id |-> started + 1, outcome |-> "pending"]
    /\ UNCHANGED <<locationText, coordinates, siteMetrics, proteinPrediction,
                   growthSeries, reportLocationLabel, phdReport, hasRunAnalysis,
                   view, instance, discarded, probe>>

\* A click on the button: handleAnalyze up to its await.
handleAnalyze ==
    /\ view = "mounted"
    /\ ButtonEnabled
    /\ started < MaxCalls
    /\ IF Len(Trim(locationText)) = 0 /\ coordinates = Null
       THEN /\ error' = VALIDATION_MESSAGE
            /\ lastAttempt' = [id |-> 0, outcome |-> "rejected"]
            /\ UNCHANGED <<isLoading, inflight, started>>
       ELSE /\ isLoading' = TRUE
            /\ error' = Null
            /\ started' = started + 1
            /\ inflight' = inflight \cup
                  {[id |-> started + 1, instance |-> instance,
                    location |-> synthesizedLocation(locationText, coordinates)]}
            /\ lastAttempt' = [id |-> started + 1, outcome |-> "pending"]
    /\ UNCHANGED <<locationText, coordinates, siteMetrics, proteinPrediction,
                   growthSeries, reportLocationLabel, phdReport, hasRunAnalysis,
                   view, instance, discarded, probe>>

\* The Dashboard instance that issued the call is still the mounted one. The
\* state setters of an unmounted instance change nothing.
Live(call) == view = "mounted" /\ call.instance = instance

\* A variant of ApplyResponse that keeps the metrics it holds when the response
\* has none.
ApplyResponseKeepingMetrics(call, derived) ==
    IF derived.threw
    THEN /\ error' = GENERIC_MESSAGE
         /\ isLoading' = FALSE
         /\ lastAttempt' = [id |-> call.id, outcome |-> "threw"]
         /\ UNCHANGED <<locationText, coordinates, siteMetrics, proteinPrediction,
                        growthSeries, reportLocationLabel, phdReport,
                        hasRunAnalysis, view>>
    ELSE /\ phdReport' = derived.phdReport
         /\ reportLocationLabel' = derived.reportLocationLabel
         /\ siteMetrics' = IF derived.siteMetrics = Null THEN siteMetrics
                           ELSE derived.siteMetrics
         /\ proteinPrediction' = derived.proteinPrediction
         /\ growthSeries' = derived.growthSeries
         /\ hasRunAnalysis' = TRUE
         /\ isLoading' = FALSE
         /\ lastAttempt' = [id |-> call.id, outcome |-> "succeeded"]
         /\ view' = IF RenderThrows(derived.phdReport) THEN "crashed" ELSE view
         /\ UNCHANGED <<locationText, coordinates, error>>

\* A variant of ApplyResponse without the finally block: an exception while
\* the response is processed leaves isLoading as it is.
ApplyResponseWithoutFinally(call, derived) ==
    IF derived.threw
    THEN /\ error' = GENERIC_MESSAGE
         /\ lastAttempt' = [id |-> call.id, outcome |-> "threw"]
         /\ UNCHANGED <<locationText, coordinates, siteMetrics, proteinPrediction,
                        growthSeries, reportLocationLabel, phdReport,
                        hasRunAnalysis, view, isLoading>>
    ELSE /\ phdReport' = derived.phdReport
         /\ reportLocationLabel' = derived.reportLocationLabel
         /\ siteMetrics' = derived.siteMetrics
         /\ proteinPrediction' = derived.proteinPrediction
         /\ growthSeries' = derived.growthSeries
         /\ hasRunAnalysis' = TRUE
         /\ isLoading' = FALSE
         /\ lastAttempt' = [id |-> call.id, outcome |-> "succeeded"]
         /\ view' = IF RenderThrows(derived.phdReport) THEN "crashed" ELSE view
         /\ UNCHANGED <<locationText, coordinates, error>>

\* The try block after the await, its catch and finally, and the render that
\* follows, for the instance that is mounted.
ApplyResponse(call, derived) ==
    IF derived.threw
    THEN /\ error' = GENERIC_MESSAGE
         /\ isLoading' = FALSE
         /\ lastAttempt' = [id |-> call.id, outcome |-> "threw"]
         /\ UNCHANGED <<locationText, coordinates, siteMetrics, proteinPrediction,
                        growthSeries, reportLocationLabel, phdReport,
                        hasRunAnalysis, view>>
    ELSE /\ phdReport' = derived.phdReport
         /\ reportLocationLabel' = derived.reportLocationLabel
         /\ siteMetrics' = derived.siteMetrics
         /\ proteinPrediction' = derived.proteinPrediction
         /\ growthSeries' = derived.growthSeries
         /\ hasRunAnalysis' = TRUE
         /\ isLoading' = FALSE
         /\ lastAttempt' = [id |-> call.id, outcome |-> "succeeded"]
         /\ view' = IF RenderThrows(derived.phdReport) THEN "crashed" ELSE view
         /\ UNCHANGED <<locationText, coordinates, error>>

\* analyzeSite resolves with body data: handleAnalyze from its await to its end.
ResponseArrives(call, data) ==
    /\ call \in inflight
    /\ inflight' = inflight \ {call}
    /\ IF Live(call)
       THEN ApplyResponse(call, Derive(data, call.location)) /\ UNCHANGED discarded
       ELSE discarded' = discarded + 1 /\ UNCHANGED <<dashboardVars, view, lastAttempt>>
    /\ UNCHANGED <<instance, started, probe>>

\* A variant of CatchFailure that also drops the results of the analysis before.
CatchFailureClearing(call) ==
    /\ error' = GENERIC_MESSAGE
    /\ isLoading' = FALSE
    /\ lastAttempt' = [id |-> call.id, outcome |-> "failed"]
    /\ siteMetrics' = Null
    /\ proteinPrediction' = Null
    /\ growthSeries' = DEFAULT_GROWTH_SERIES
    /\ UNCHANGED <<locationText, coordinates, reportLocationLabel, phdReport,
                   hasRunAnalysis>>

\* The catch and finally blocks of handleAnalyze after a rejected request.
CatchFailure(call) ==
    /\ error' = GENERIC_MESSAGE
    /\ isLoading' = FALSE
    /\ lastAttempt' = [id |-> call.id, outcome |-> "failed"]
    /\ UNCHANGED <<locationText, coordinates, siteMetrics, proteinPrediction,
                   growthSeries, reportLocationLabel, phdReport, hasRunAnalysis>>

\* analyzeSite rejects: the request fails or times out.
RequestFails(call) ==
    /\ call \in inflight
    /\ inflight' = inflight \ {call}
    /\ IF Live(call)
       THEN CatchFailure(call) /\ UNCHANGED discarded
       ELSE discarded' = discarded + 1 /\ UNCHANGED <<dashboardVars, lastAttempt>>
    /\ UNCHANGED <<view, instance, started, probe>>

\* The state of a Dashboard that is not there, or has just mounted: the initial
\* values of its useState calls.
FreshState ==
    /\ locationText' = <<>>
    /\ coordinates' = Null
    /\ isLoading' = FALSE
    /\ error' = Null
    /\ siteMetrics' = Null
    /\ proteinPrediction' = Null
    /\ growthSeries' = DEFAULT_GROWTH_SERIES
    /\ reportLocationLabel' = Str(<<>>)
    /\ phdReport' = Str(<<>>)
    /\ hasRunAnalysis' = FALSE
    /\ lastAttempt' = [id |-> 0, outcome |-> "none"]

\* The user leaves the page: the Dashboard unmounts and its state is dropped.
NavigateAway ==
    /\ view = "mounted"
    /\ view' = "away"
    /\ FreshState
    /\ UNCHANGED <<instance, inflight, started, discarded, probe>>

\* The user comes back, or reloads a crashed page: a new Dashboard mounts.
NavigateBack ==
    /\ view \in {"away", "crashed"}
    /\ instance < MaxMounts
    /\ view' = "mounted"
    /\ instance' = instance + 1
    /\ FreshState
    /\ UNCHANGED <<inflight, started, discarded, probe>>

Next ==
    \/ \E text \in TextInputs : SetLocationText(text)
    \/ \E coords \in Points : MapClick(coords)
    \/ handleAnalyze
    \/ \E call \in inflight : \E data \in ResponseBodies : ResponseArrives(call, data)
    \/ \E call \in inflight : RequestFails(call)
    \/ NavigateAway
    \/ NavigateBack

Spec == Init /\ [][Next]_vars

\* The dashboard again, with the bodies that make each outcome of handleAnalyze
\* happen: a complete analysis, one whose join raises, one whose render raises.
LiveBodies == {FullAnalysis} \cup MistypedBodies

\* The awaited analyzeSite call settles: it resolves with some body or rejects.
Settles ==
    \E call \in inflight :
        \/ \E data \in LiveBodies : ResponseArrives(call, data)
        \/ RequestFails(call)

NextLive ==
    \/ \E text \in TextInputs : SetLocationText(text)
    \/ \E coords \in Points : MapClick(coords)
    \/ handleAnalyze
    \/ \E call \in inflight : \E data \in LiveBodies : ResponseArrives(call, data)
    \/ \E call \in inflight : RequestFails(call)
    \/ NavigateAway
    \/ NavigateBack

\* Every request settles in the end.
SpecLive == Init /\ [][NextLive]_vars /\ WF_vars(Settles)
(***************************************************************************)
(* The pure functions on their own, on bounded inputs.                     *)
(***************************************************************************)
ProbeOf(fn, arg) == [fn |-> fn, arg |-> arg, ret |-> Undef, done |-> FALSE]

\* The object holding vals[i] under keys[i]; an undefined value is a missing key.
ObjectOf(keys, vals) ==
    Obj([k \in {keys[i] : i \in {j \in 1..Len(keys) : vals[j] # Undef}} |->
            vals[CHOOSE i \in 1..Len(keys) : keys[i] = k]])

\* With wrapped, the analysis sits inside an outer `analysis` object.
Wrap(wrapped, analysis) == IF wrapped THEN Obj([analysis |-> analysis]) ELSE analysis

STR_28_5 == Str(<<"2", "8", ".", "5">>)
STR_NA == Str(<<"n", "/", "a">>)

\* What may sit under one key of climate or water_profile.
KeyValues == {Undef, Null, Num(285 * (Scale \div 10)), STR_28_5, STR_NA, Str(<<>>)}

GoodValues(n) == [i \in 1..n |-> IF i = 1 THEN Num(25 * Scale) ELSE Undef]

\* What the keys of one field hold: every combination of KeyValues if the field
\* is the deviant one, and a number under the first key otherwise.
FieldInputs(n, deviant) == IF deviant THEN [1..n -> KeyValues] ELSE {GoodValues(n)}

MetricsPayload(tv, rv, pv, sv, wrapped) ==
    Wrap(wrapped,
         Obj([climate |-> ObjectOf(TemperatureKeys \o RadiationKeys, tv \o rv),
              water_profile |-> ObjectOf(PhKeys \o SalinityKeys, pv \o sv)]))

\* The payloads: no field or one of the four fields is deviant, or all four
\* fields hold the same combination of values under their keys.
MetricsInputs ==
    UNION { { MetricsPayload(tv, rv, pv, sv, wrapped) :
                tv \in FieldInputs(Len(TemperatureKeys), field = 1),
                rv \in FieldInputs(Len(RadiationKeys), field = 2),
                pv \in FieldInputs(Len(PhKeys), field = 3),
                sv \in FieldInputs(Len(SalinityKeys), field = 4),
                wrapped \in BOOLEAN } :
            field \in 0..4 }
    \cup { MetricsPayload(v, v, v, SubSeq(v, 1, Len(SalinityKeys)), wrapped) :
             v \in [1..Len(TemperatureKeys) -> KeyValues], wrapped \in BOOLEAN }

\* Entries of a confidence vector.
ConfidenceEntries ==
    {Num(5000), Num(8766), Num(-5000), Num(15000), Str(<<"0", ".", "9">>), Str(<<"x">>)}

MaxConfidenceLen == 4

\* Further vectors: an entry that coerces to Infinity (the string, or a JSON
\* number such as 1e999), first and in the middle, and [0.1, 0.1, 0.8, 0.9].
STR_INFINITY == Str(<<"Infinity">>)
FurtherVectors ==
    {Arr(<<STR_INFINITY, Num(5000), Num(8766)>>),
     Arr(<<Num(5000), STR_INFINITY, Num(8766)>>),
     Arr(<<Num(1000), Num(1000), Num(8000), Num(9000)>>)}

ConfidenceInputs ==
    {Undef, Null, Str(<<"h", "i", "g", "h">>)}
    \cup UNION { { Arr(a) : a \in [1..n -> ConfidenceEntries] } : n \in 0..MaxConfidenceLen }
    \cup FurtherVectors

BiomassInputs ==
    {Undef, Null, Num(25 * Scale), Num(30 * Scale), Num(70 * Scale), STR_NA}

StatusInputs == {Undef, STATUS_UNKNOWN, STATUS_INVALID, STATUS_MARGINAL, STATUS_VALID}

ProteinPayload(confidence, biomass, status) ==
    ObjectOf(<<"biomass_prediction", "cultivation_status">>,
             <<ObjectOf(<<"confidence", "biomass_prediction">>, <<confidence, biomass>>),
               status>>)

\* Every confidence value with some of the other signals, and every combination
\* of the other signals with some of the confidence values.
ProteinInputs ==
    { ProteinPayload(c, b, s) :
        c \in ConfidenceInputs, b \in {Undef, Num(55 * Scale)}, s \in {Undef, STATUS_VALID} }
    \cup
    { ProteinPayload(c, b, s) :
        c \in {Undef, Null, Arr(<<Num(9000), Num(1000)>>),
               Arr(<<Num(2000), Num(5000), Num(3000)>>)},
        b \in BiomassInputs, s \in StatusInputs }

\* Metrics on a grid around the ideal: steps of 7.25 degrees C and 4.5 MJ/m2/day,
\* with the ideal pH or pH 7, and with the ideal salinity or sea water's 35.
MaxTempSteps == 10
MaxRadSteps == 6

GrowthInputs ==
    { [temperature |-> Fin(IDEAL_METRICS.temperature + i * 72500),
       ph |-> Fin(p),
       radiation |-> Fin(IDEAL_METRICS.radiation + j * 45000),
       salinity |-> Fin(IDEAL_METRICS.salinity)] :
        i \in (-MaxTempSteps)..MaxTempSteps, j \in (-MaxRadSteps)..MaxRadSteps,
        p \in {IDEAL_METRICS.ph, 7 * Scale} }
    \cup
    { [temperature |-> Fin(IDEAL_METRICS.temperature + i * 72500),
       ph |-> Fin(IDEAL_METRICS.ph),
       radiation |-> Fin(IDEAL_METRICS.radiation + j * 45000),
       salinity |-> Fin(35 * Scale)] :
        i \in (-MaxTempSteps)..MaxTempSteps, j \in (-MaxRadSteps)..MaxRadSteps }

CallExtractSiteMetrics ==
    /\ probe.fn = "extractSiteMetrics" /\ ~probe.done
    /\ probe' = [probe EXCEPT !.ret = extractSiteMetrics(probe.arg), !.done = TRUE]
    /\ UNCHANGED <<dashboardVars, hostVars>>

CallExtractProteinPrediction ==
    /\ probe.fn = "extractProteinPrediction" /\ ~probe.done
    /\ probe' = [probe EXCEPT !.ret = extractProteinPrediction(probe.arg), !.done = TRUE]
    /\ UNCHANGED <<dashboardVars, hostVars>>

CallGenerateGrowthSeries ==
    /\ probe.fn = "generateGrowthSeriesFromMetrics" /\ ~probe.done
    /\ probe' = [probe EXCEPT !.ret = generateGrowthSeriesFromMetrics(probe.arg),
                              !.done = TRUE]
    /\ UNCHANGED <<dashboardVars, hostVars>>

InitMetrics ==
    /\ DashboardInit /\ HostInit
    /\ probe \in {ProbeOf("extractSiteMetrics", p) : p \in MetricsInputs}
SpecMetrics == InitMetrics /\ [][CallExtractSiteMetrics]_vars

InitProtein ==
    /\ DashboardInit /\ HostInit
    /\ probe \in {ProbeOf("extractProteinPrediction", p) : p \in ProteinInputs}
SpecProtein == InitProtein /\ [][CallExtractProteinPrediction]_vars

InitGrowth ==
    /\ DashboardInit /\ HostInit
    /\ probe \in {ProbeOf("generateGrowthSeriesFromMetrics", m) : m \in GrowthInputs \cup {Null}}
SpecGrowth == InitGrowth /\ [][CallGenerateGrowthSeries]_vars

(***************************************************************************)
(* utils: cleanMarkdownBold                                                *)
(***************************************************************************)
\* A character the `.` of a regular expression does not match.
IsLineBreak(c) == c \in {"\n", "\r"}

\* The text holds ** at position i.
StarsAt(s, i) == i + 1 <= Len(s) /\ s[i] = "*" /\ s[i + 1] = "*"

RECURSIVE CloseAt(_, _)
\* Where (.*?)\*\* ends its lazy group when it starts at j: the first position
\* from j on that holds **, with no line break before it; 0 if there is none.
CloseAt(s, j) ==
    IF j + 1 > Len(s) THEN 0
    ELSE IF StarsAt(s, j) THEN j
    ELSE IF IsLineBreak(s[j]) THEN 0
    ELSE CloseAt(s, j + 1)

\* A variant of ReplaceMatch without the g flag: only the first match is replaced.
ReplaceMatchOnce(s, i, close) == SubSeq(s, i + 2, close - 1) \o SubSeq(s, close + 2, Len(s))

RECURSIVE StripBold(_, _)
\* One match of /\*\*(.*?)\*\*/ opening at i and closing at close, replaced by
\* its group, and the replacement of the rest.
ReplaceMatch(s, i, close) == SubSeq(s, i + 2, close - 1) \o StripBold(s, close + 2)

\* input.replace(/\*\*(.*?)\*\*/g, "$1") from position i on.
StripBold(s, i) ==
    IF i > Len(s) THEN <<>>
    ELSE IF StarsAt(s, i) /\ CloseAt(s, i + 2) # 0
    THEN ReplaceMatch(s, i, CloseAt(s, i + 2))
    ELSE <<s[i]>> \o StripBold(s, i + 1)

cleanMarkdownBold(input) ==
    IF ~Truthy(input) THEN Str(<<>>) ELSE Str(StripBold(input.v, 1))

(***************************************************************************)
(* Dashboard: extractKeyPoints                                             *)
(***************************************************************************)
RECURSIVE LineBreakAt(_, _)
\* The position of the first "\n" of s from i on, or Len(s) + 1.
LineBreakAt(s, i) ==
    IF i > Len(s) THEN i ELSE IF s[i] = "\n" THEN i ELSE LineBreakAt(s, i + 1)

RECURSIVE SplitFrom(_, _)
\* The line of s that starts at i and ends before position end, and the lines after it.
LinesFrom(s, i, end) ==
    <<SubSeq(s, i, end - 1)>> \o (IF end > Len(s) THEN <<>> ELSE SplitFrom(s, end + 1))

\* s.split("\n") from position i on.
SplitFrom(s, i) == LinesFrom(s, i, LineBreakAt(s, i))

NonEmpty(line) == Len(line) > 0

\* rawLines
RawLinesOf(text) ==
    SelectSeq([i \in 1..Len(SplitFrom(text, 1)) |-> Trim(SplitFrom(text, 1)[i])], NonEmpty)

\* isBullet
isBullet(line) ==
    \/ Head(line) = "*"
    \/ Head(line) = "-"
    \/ DigitRun(line) > 0 /\ DigitRun(line) < Len(line) /\ line[DigitRun(line) + 1] = "."

\* A character of the class [\*\-\d\.\)\s].
IsMarker(c) == c \in {"*", "-", ".", ")"} \/ IsDigit(c) \/ IsSpace(c)

RECURSIVE StripMarkers(_)
\* line.replace(/^[\*\-\d\.\)\s]+/, "")
StripMarkers(line) ==
    IF line # <<>> /\ IsMarker(Head(line)) THEN StripMarkers(Tail(line)) ELSE line

LongEnough(line) == Len(line) >= 5

\* .map((line) => line.replace(...).trim()).filter((line) => line.length >= 5)
ItemsOf(lines) ==
    SelectSeq([i \in 1..Len(lines) |-> Trim(StripMarkers(lines[i]))], LongEnough)

\* cleanedBullets and fallbackLines
CleanedBulletsOf(rawLines) == ItemsOf(SelectSeq(rawLines, isBullet))
FallbackLinesOf(rawLines) == ItemsOf(rawLines)

\* A variant of SourceOf that always takes the fallback lines.
SourceOfAllLines(cleanedBullets, fallbackLines) == fallbackLines

\* source
SourceOf(cleanedBullets, fallbackLines) ==
    IF Len(cleanedBullets) > 0 THEN cleanedBullets ELSE fallbackLines

\* A variant of SliceOf that returns the whole source.
SliceOfEverything(source) == source

\* source.slice(0, 6)
SliceOf(source) == SubSeq(source, 1, Min(6, Len(source)))

KeyPointsFrom(rawLines) ==
    SliceOf(SourceOf(CleanedBulletsOf(rawLines), FallbackLinesOf(rawLines)))

extractKeyPoints(cleaned) ==
    IF ~Truthy(cleaned) THEN <<>> ELSE KeyPointsFrom(RawLinesOf(cleaned.v))

(***************************************************************************)
(* The text functions on their own, on bounded inputs.                     *)
(***************************************************************************)
RECURSIVE JoinText(_, _)
\* The texts of lines with sep between them.
JoinText(lines, sep) ==
    IF Len(lines) = 0 THEN <<>>
    ELSE IF Len(lines) = 1 THEN lines[1]
    ELSE lines[1] \o sep \o JoinText(Tail(lines), sep)

\* The item of line n: a text of five characters that names its line.
ItemText(n) == <<"i", "t", "e", "m", Digits[n + 1]>>

\* Line n of a narrative, of one of five kinds.
NarrativeLine(kind, n) ==
    CASE kind = "bullet" -> <<"-", " ">> \o ItemText(n)
      [] kind = "numbered" -> <<Digits[n + 1], ".", " ">> \o ItemText(n)
      [] kind = "plain" -> <<" ">> \o ItemText(n) \o <<" ">>
      [] kind = "short" -> <<"*", " ", "a", "b">>
      [] OTHER -> <<>>

NarrativeOf(kinds) ==
    Str(JoinText([n \in 1..Len(kinds) |-> NarrativeLine(kinds[n], n)], <<"\n">>))

\* Narratives of up to MaxLines lines of three kinds, and of up to
\* MaxMixedLines lines of all five kinds.
MaxLines == 7
MaxMixedLines == 3
LineKinds == {"bullet", "plain", "short"}
MixedLineKinds == LineKinds \cup {"numbered", "blank"}

KeyPointInputs ==
    UNION { { NarrativeOf(kinds) : kinds \in [1..n -> LineKinds] } : n \in 0..MaxLines }
    \cup UNION { { NarrativeOf(kinds) : kinds \in [1..n -> MixedLineKinds] } :
                 n \in 0..MaxMixedLines }

CallExtractKeyPoints ==
    /\ probe.fn = "extractKeyPoints" /\ ~probe.done
    /\ probe' = [probe EXCEPT !.ret = extractKeyPoints(probe.arg), !.done = TRUE]
    /\ UNCHANGED <<dashboardVars, hostVars>>

InitKeyPoints ==
    /\ DashboardInit /\ HostInit
    /\ probe \in {ProbeOf("extractKeyPoints", text) : text \in KeyPointInputs}
SpecKeyPoints == InitKeyPoints /\ [][CallExtractKeyPoints]_vars

\* Texts of up to MaxCleanLen characters: asterisks, a letter and line breaks.
MaxCleanLen == 8
CleanAlphabet == {"*", "a", "\n"}

CleanInputs ==
    {Undef, Null}
    \cup UNION { { Str(s) : s \in [1..n -> CleanAlphabet] } : n \in 0..MaxCleanLen }

CallCleanMarkdownBold ==
    /\ probe.fn = "cleanMarkdownBold" /\ ~probe.done
    /\ probe' = [probe EXCEPT !.ret = cleanMarkdownBold(probe.arg), !.done = TRUE]
    /\ UNCHANGED <<dashboardVars, hostVars>>

InitClean ==
    /\ DashboardInit /\ HostInit
    /\ probe \in {ProbeOf("cleanMarkdownBold", input) : input \in CleanInputs}
SpecClean == InitClean /\ [][CallCleanMarkdownBold]_vars

(***************************************************************************)
(* Dashboard: handleDownloadReport                                         *)
(***************************************************************************)
\* a || b
OrElse(a, b) == IF Truthy(a) THEN a ELSE b

\* "Spirulina cultivation site"
DEFAULT_LOCATION_LABEL ==
    Str(<<"S", "p", "i", "r", "u", "l", "i", "n", "a", " ", "c", "u", "l", "t", "i",
          "v", "a", "t", "i", "o", "n", " ", "s", "i", "t", "e">>)

\* locationLabel
LocationLabelOf(label, text) == OrElse(label, OrElse(Str(text), DEFAULT_LOCATION_LABEL))

\* The text of a value in a template literal; the labels are strings or numbers.
TemplateText(x) ==
    IF x.t = "string" THEN x.v
    ELSE IF x.t = "number" THEN ToFixed(x.v, 0)
    ELSE <<"[object Object]">>

\* The characters \w matches.
WordChars ==
    {"a", "b", "c", "d", "e", "f", "g", "h", "i", "j", "k", "l", "m", "n", "o", "p",
     "q", "r", "s", "t", "u", "v", "w", "x", "y", "z",
     "A", "B", "C", "D", "E", "F", "G", "H", "I", "J", "K", "L", "M", "N", "O", "P",
     "Q", "R", "S", "T", "U", "V", "W", "X", "Y", "Z",
     "0", "1", "2", "3", "4", "5", "6", "7", "8", "9", "_"}

\* A character [^\w\-] does not match.
IsNameChar(c) == c \in WordChars \/ c = "-"

RECURSIVE DropOthers(_)
\* s without its leading characters that [^\w\-] matches.
DropOthers(s) == IF s # <<>> /\ ~IsNameChar(Head(s)) THEN DropOthers(Tail(s)) ELSE s

RECURSIVE SafeNameOf(_)
\* locationLabel.replace(/[^\w\-]+/g, "_"): each run of other characters
\* becomes one underscore.
SafeNameOf(s) ==
    IF s = <<>> THEN <<>>
    ELSE IF IsNameChar(Head(s)) THEN <<Head(s)>> \o SafeNameOf(Tail(s))
    ELSE <<"_">> \o SafeNameOf(DropOthers(s))

\* A variant of FileNameOf that sanitizes nothing.
FileNameOfRawLabel(label) == <<"spirulina_site_report_">> \o label \o <<".pdf">>

\* `spirulina_site_report_${safeName || "site"}.pdf`
FileNameOf(label) ==
    <<"spirulina_site_report_">>
    \o (IF SafeNameOf(label) # <<>> THEN SafeNameOf(label) ELSE <<"s", "i", "t", "e">>)
    \o <<".pdf">>

\* getProteinUseCase
getProteinUseCase(level) ==
    IF level = "Low"
    THEN <<"Primarily suitable for animal / cow feed applications.">>
    ELSE IF level = "Medium"
    THEN <<"Well-suited for human food and nutraceutical products.">>
    ELSE <<"Suitable for high-value medicinal or pharmaceutical-grade formulations.">>

\* The lines doc.text writes, as blocks: a heading and the lines under it. The
\* degree sign, the superscript two and the bullet glyph are spelled out in
\* parentheses.
TitleBlock == [heading |-> <<"Spirulina Site Analysis Report">>, lines |-> <<>>]
LocationBlock(label) ==
    [heading |-> <<"Location: ">> \o TemplateText(label), lines |-> <<>>]

EnvironmentBlock(metrics) ==
    [heading |-> <<"Environmental snapshot">>,
     lines |-> << <<"Average temperature: ">> \o ToFixed(metrics.temperature.v, 2)
                     \o <<" (degree)C">>,
                  <<"Solar radiation: ">> \o ToFixed(metrics.radiation.v, 2)
                     \o <<" MJ/m(2)/day (ALLSKY_SFC_SW_DWN)">>,
                  <<"Alkalinity / pH: ">> \o ToFixed(metrics.ph.v, 2),
                  <<"Salinity: ">> \o ToFixed(metrics.salinity.v, 2) \o <<" %">> >>]

ProteinBlock(prediction) ==
    [heading |-> <<"Protein content band">>,
     lines |-> << <<"Band: ", prediction.level>>,
                  <<"Band strength: ">> \o ToFixed(prediction.score, 1) \o <<"%">>,
                  <<"Primary application: ">> \o getProteinUseCase(prediction.level) >>]

RecommendationsBlock(keyPoints) ==
    [heading |-> <<"Key technical recommendations">>,
     lines |-> [i \in 1..Len(keyPoints) |-> <<"(bullet) ">> \o keyPoints[i]]]

\* A variant of SectionsOf that writes the protein band before the environment.
SectionsOfProteinFirst(metrics, prediction, keyPoints) ==
    (IF prediction # Null THEN <<ProteinBlock(prediction)>> ELSE <<>>)
    \o (IF metrics # Null THEN <<EnvironmentBlock(metrics)>> ELSE <<>>)
    \o (IF Len(keyPoints) > 0 THEN <<RecommendationsBlock(keyPoints)>> ELSE <<>>)

\* The three conditional sections.
SectionsOf(metrics, prediction, keyPoints) ==
    (IF metrics # Null THEN <<EnvironmentBlock(metrics)>> ELSE <<>>)
    \o (IF prediction # Null THEN <<ProteinBlock(prediction)>> ELSE <<>>)
    \o (IF Len(keyPoints) > 0 THEN <<RecommendationsBlock(keyPoints)>> ELSE <<>>)

\* What one call of handleDownloadReport does with the document: nothing (the
\* early return), doc.save, or a TypeError at locationLabel.replace, which a
\* label that is no string raises before doc.save.
ReportFor(locationLabel, cleanedReport, report, metrics, prediction) ==
    IF ~Truthy(cleanedReport) /\ ~Truthy(report) THEN [outcome |-> "none"]
    ELSE IF locationLabel.t # "string" THEN [outcome |-> "threw"]
    ELSE [outcome |-> "saved",
          name |-> FileNameOf(locationLabel.v),
          doc |-> <<TitleBlock, LocationBlock(locationLabel)>>
                  \o SectionsOf(metrics, prediction,
                                extractKeyPoints(OrElse(cleanedReport, report)))]

\* The Download report button is enabled: not
\* disabled={!cleanedReport && !phdReport}.
DownloadEnabled == Truthy(cleanMarkdownBold(phdReport)) \/ Truthy(phdReport)

\* A click on Download report: the call and what it saved are recorded in probe.
handleDownloadReport ==
    /\ view = "mounted"
    /\ DownloadEnabled
    /\ probe' = [fn |-> "handleDownloadReport", arg |-> Undef, done |-> TRUE,
                 ret |-> ReportFor(LocationLabelOf(reportLocationLabel, locationText),
                                   cleanMarkdownBold(phdReport), phdReport,
                                   siteMetrics, proteinPrediction)]
    /\ UNCHANGED <<dashboardVars, hostVars>>

(***************************************************************************)
(* Analyses followed by a download of the report                           *)
(***************************************************************************)
\* What the user may type before a download, and a click west of Greenwich.
ReportTexts ==
    {<<>>, <<"P", "u", "n", "e">>, <<"S", "i", "t", "e", "-", "7", " ", "#", "2">>}
ReportPoints == {[lat |-> 185204, lng |-> -738567]}

NoField == [k \in {} |-> Undef]
MetricFields ==
    [climate |-> Obj([temperature |-> Num(285 * (Scale \div 10)),
                      solar_radiation |-> Num(18 * Scale)]),
     water_profile |-> Obj([initial_pH |-> Num(92 * (Scale \div 10)),
                            salinity |-> Num(25 * (Scale \div 10))])]
ProteinFields == [cultivation_status |-> STATUS_MARGINAL]
\* A narrative with two bullets, one whose only line is too short to be a key
\* point, and none.
NarrativeFields ==
    {[formatted_text |-> NARRATIVE], [summary |-> Str(<<"o", "k">>)], NoField}
LocationFields ==
    {[location |-> Str(<<>>)],
     [location |-> Str(<<"N", "a", "s", "h", "i", "k", "_", "N", ",", " ", "I", "N">>)],
     [location |-> Num(42 * Scale)]}

\* The bodies the service may answer with: every combination of metrics,
\* protein signal and narrative, and three kinds of location on one of them.
ReportBodies ==
    {Obj(metrics @@ protein @@ narrative) :
        metrics \in {MetricFields, NoField}, protein \in {ProteinFields, NoField},
        narrative \in NarrativeFields}
    \cup {Obj(location @@ MetricFields @@ [summary |-> Str(<<"o", "k">>)]) :
            location \in LocationFields}

\* No report has been downloaded yet: a behaviour ends with its download.
NoDownload == probe.fn = "none"

NextReport ==
    \/ NoDownload /\ \E text \in ReportTexts : SetLocationText(text)
    \/ NoDownload /\ \E coords \in ReportPoints : MapClick(coords)
    \/ NoDownload /\ handleAnalyze
    \/ NoDownload /\ \E call \in inflight : \E data \in ReportBodies : ResponseArrives(call, data)
    \/ handleDownloadReport

SpecReport == Init /\ [][NextReport]_vars

(***************************************************************************)
(* The two location inputs on their own: text edits and clicks on two      *)
(* points of the map, and the analyses submitted from them.                *)
(***************************************************************************)
\* Two points of the map: near Pune and near Nashik.
SyncPoints == {[lat |-> 185204, lng |-> 738567], [lat |-> 199975, lng |-> 737898]}

\* What the user types: clearing the field, or a place name.
SyncTexts == {<<>>, <<"P", "u", "n", "e">>}

NextSync ==
    \/ \E text \in SyncTexts : SetLocationText(text)
    \/ \E coords \in SyncPoints : MapClick(coords)
    \/ handleAnalyze
    \/ \E call \in inflight : RequestFails(call)

SpecSync == Init /\ [][NextSync]_vars

(***************************************************************************)
(* Properties: extractSiteMetrics                                          *)
(***************************************************************************)
\* The values a payload holds under the accepted key names of one field.
FieldValues(payload, section, keys) ==
    [i \in 1..Len(keys) |-> Get(SectionOf(InnerOf(payload), section), keys[i])]

\* The field is absent under every accepted key name: missing or null.
FieldAbsent(vals) == \A i \in 1..Len(vals) : IsNullish(vals[i])

\* The value of the field: the one under the first key that holds one.
FieldValue(vals) ==
    vals[CHOOSE i \in 1..Len(vals) :
            ~IsNullish(vals[i]) /\ \A j \in 1..(i - 1) : IsNullish(vals[j])]

\* The field is absent or does not coerce to a finite number.
FieldUnusable(vals) == FieldAbsent(vals) \/ ~IsFinite(ToNumber(FieldValue(vals)))

AnyFieldUnusable(payload) ==
    \/ FieldUnusable(FieldValues(payload, "climate", TemperatureKeys))
    \/ FieldUnusable(FieldValues(payload, "climate", RadiationKeys))
    \/ FieldUnusable(FieldValues(payload, "water_profile", PhKeys))
    \/ FieldUnusable(FieldValues(payload, "water_profile", SalinityKeys))

MetricsCalled == probe.fn = "extractSiteMetrics" /\ probe.done

\* C1: extractSiteMetrics is all-or-nothing. For a payload in which one of the
\* four fields is absent under every accepted key (missing or null) or does not
\* coerce to a finite number the result is null, and a record is returned only
\* with four finite numbers.
C1_AllOrNothing ==
    MetricsCalled =>
        /\ AnyFieldUnusable(probe.arg) => probe.ret = Null
        /\ probe.ret # Null =>
              /\ IsFinite(probe.ret.temperature) /\ IsFinite(probe.ret.radiation)
              /\ IsFinite(probe.ret.ph) /\ IsFinite(probe.ret.salinity)

(***************************************************************************)
(* Properties: extractProteinPrediction                                    *)
(***************************************************************************)
ConfidenceIn(payload) == Get(BiomassOf(payload), "confidence")
RawIn(payload) == ToNumber(Get(BiomassOf(payload), "biomass_prediction"))
StatusIn(payload) == Get(InnerOf(payload), "cultivation_status")

\* The tier applies to the payload.
Tier1Applies(payload) ==
    ConfidenceIn(payload).t = "array" /\ Len(ConfidenceIn(payload).v) >= 3
Tier2Applies(payload) == IsFinite(RawIn(payload))
Tier3Applies(payload) ==
    StatusIn(payload) \in {STATUS_INVALID, STATUS_MARGINAL, STATUS_VALID}

ProteinCalled == probe.fn = "extractProteinPrediction" /\ probe.done

\* C2: extractProteinPrediction returns the result of the first tier that
\* applies, in the order confidence vector, numeric banding, status proxy; with
\* a confidence vector and a numeric biomass_prediction both present it returns
\* tier 1's result, tier 3's result only when tiers 1 and 2 do not apply, and
\* null only when no tier applies.
C2_FirstApplicableTier ==
    ProteinCalled =>
        /\ Tier1Applies(probe.arg) =>
              probe.ret = ConfidenceTier(ConfidenceIn(probe.arg).v)
        /\ ~Tier1Applies(probe.arg) /\ Tier2Applies(probe.arg) =>
              probe.ret = BandTier(RawIn(probe.arg).v)
        /\ ~Tier1Applies(probe.arg) /\ ~Tier2Applies(probe.arg) =>
              probe.ret = StatusTier(StatusIn(probe.arg))
        /\ probe.ret = Null =>
              /\ ~Tier1Applies(probe.arg)
              /\ ~Tier2Applies(probe.arg)
              /\ ~Tier3Applies(probe.arg)

\* A payload with a confidence vector and a numeric biomass_prediction whose
\* two tiers disagree: the result is tier 1's.
C2_Witness ==
    /\ ProteinCalled
    /\ Tier1Applies(probe.arg) /\ Tier2Applies(probe.arg)
    /\ probe.ret = ConfidenceTier(ConfidenceIn(probe.arg).v)
    /\ probe.ret # BandTier(RawIn(probe.arg).v)

\* C3: every prediction extractProteinPrediction returns has a level among
\* Low, Medium, High and a score within [0, 100].
C3_LevelAndScoreInRange ==
    ProteinCalled /\ probe.ret # Null =>
        /\ probe.ret.level \in {"Low", "Medium", "High"}
        /\ probe.ret.score >= 0
        /\ probe.ret.score <= 100 * Scale

(***************************************************************************)
(* Properties: growth series                                               *)
(***************************************************************************)
\* 14 points, days 1, 2, ..., 14 in this order, every doublingTime positive.
WellFormedSeries(series) ==
    /\ DOMAIN series = 1..14
    /\ \A i \in 1..14 : series[i].day = i /\ series[i].doublingTime > 0

\* C4: in every reachable state of the dashboard the growth series has exactly
\* 14 points with days 1..14 in increasing order and a positive doublingTime;
\* generateGrowthSeriesFromMetrics returns such a series for null metrics (the
\* default series, whose day-1 value is 2.1) and for every present metrics.
\* What the function returns does not depend on the state: the last conjunct is
\* evaluated in the states before the first request.
C4_SeriesWellFormed ==
    /\ WellFormedSeries(growthSeries)
    /\ generateGrowthSeriesFromMetrics(Null) = DEFAULT_GROWTH_SERIES
    /\ DEFAULT_GROWTH_SERIES[1] = [day |-> 1, doublingTime |-> 21 * (Micro \div 10)]
    /\ started = 0 =>
          \A metrics \in GrowthInputs :
              WellFormedSeries(generateGrowthSeriesFromMetrics(metrics))

\* An analysis has replaced the default series by one made from its metrics.
C4_Witness ==
    /\ hasRunAnalysis
    /\ siteMetrics # Null
    /\ growthSeries = generateGrowthSeriesFromMetrics(siteMetrics)
    /\ growthSeries # DEFAULT_GROWTH_SERIES

GrowthCalled ==
    probe.fn = "generateGrowthSeriesFromMetrics" /\ probe.done /\ probe.arg # Null

\* C5 as stated: for every present metrics every doublingTime of the series
\* lies within [1.2, 3.5] days.
C5_WithinClampRange ==
    GrowthCalled =>
        \A i \in 1..14 :
            /\ probe.ret[i].doublingTime >= 12 * (Micro \div 10)
            /\ probe.ret[i].doublingTime <= 35 * (Micro \div 10)

\* C5 amended: the clamp to [1.2, 3.5] applies to the base value only; the
\* seasonal term, of magnitude at most 0.1, is added after it, so every
\* doublingTime of the series lies within [1.2, 3.6] days and within 0.1 (and
\* the rounding to two decimals) of the clamped base.
C5_WithinClampRangePlusSeasonal ==
    GrowthCalled =>
        \A i \in 1..14 :
            /\ probe.ret[i].doublingTime >= 12 * (Micro \div 10)
            /\ probe.ret[i].doublingTime <= 36 * (Micro \div 10)
            /\ BaseDoubling(Penalty(probe.arg)) >= 12 * (Micro \div 10)
            /\ BaseDoubling(Penalty(probe.arg)) <= 35 * (Micro \div 10)
            /\ Abs(probe.ret[i].doublingTime - BaseDoubling(Penalty(probe.arg)))
                  <= Micro \div 10 + Micro \div 200

\* Extreme metrics: the base is at its cap of 3.5 and a value exceeds it.
C5_Witness ==
    /\ GrowthCalled
    /\ BaseDoubling(Penalty(probe.arg)) = 35 * (Micro \div 10)
    /\ \E i \in 1..14 : probe.ret[i].doublingTime > 35 * (Micro \div 10)

(***************************************************************************)
(* Properties: handleAnalyze                                               *)
(***************************************************************************)
\* The calls in flight that the mounted Dashboard instance issued.
LiveCalls == {call \in inflight : Live(call)}

\* The call is superseded: its Dashboard instance is unmounted, or the instance
\* has started a later analysis.
Superseded(call) == ~Live(call) \/ call.id # lastAttempt.id

DerivedValues(derived) ==
    <<derived.phdReport, derived.reportLocationLabel, derived.siteMetrics,
      derived.proteinPrediction, derived.growthSeries>>

FreshDerived == <<Str(<<>>), Str(<<>>), Null, Null, DEFAULT_GROWTH_SERIES>>

\* C6: the response of a superseded analysis (the user has started another one,
\* or has navigated away) is discarded whatever the order of arrival: it writes
\* none of narrative, report label, siteMetrics, proteinPrediction and
\* growthSeries, and these only ever change to what the latest analysis of the
\* mounted instance derives from its own response (or to their initial values,
\* on navigation).
C6_SupersededResponseDiscarded ==
    [][ /\ \A call \in inflight \ inflight' :
              Superseded(call) => UNCHANGED derivedVars
        /\ derivedVars' # derivedVars =>
              \/ inflight' = inflight /\ derivedVars' = FreshDerived
              \/ \E call \in inflight \ inflight' :
                    /\ ~Superseded(call)
                    /\ \E data \in ResponseBodies :
                          derivedVars' = DerivedValues(Derive(data, call.location))
      ]_vars

\* The response of the call the user left behind was dropped, and the state
\* shows the results of the analysis started after coming back.
C6_Witness ==
    /\ discarded > 0
    /\ lastAttempt.outcome = "succeeded"
    /\ hasRunAnalysis /\ siteMetrics # Null
    /\ inflight = {}

\* C7 as stated: at most one analysis request is in flight at any time.
C7_AtMostOneInFlight == Cardinality(inflight) <= 1

\* C7 amended: single-flight holds per mounted Dashboard instance. An
\* invocation starts only while isLoading is false and issues exactly one
\* request, isLoading is true exactly while a request of the mounted instance
\* is in flight, and at most one such request is; the request of an instance
\* the user has navigated away from is not cancelled and may still be in flight
\* beside it.
C7_SingleFlightPerInstance ==
    [][ /\ Cardinality(LiveCalls') <= 1
        /\ isLoading' <=> LiveCalls' # {}
        /\ started' # started =>
              /\ ~isLoading
              /\ started' = started + 1
              /\ inflight \subseteq inflight'
              /\ Cardinality(inflight' \ inflight) = 1
      ]_vars

\* Two requests in flight: one of the mounted instance, one left behind.
C7_Witness ==
    /\ Cardinality(inflight) = 2
    /\ Cardinality(LiveCalls) = 1
    /\ isLoading

\* C8: when the request of an analysis fails, error becomes the generic
\* message and isLoading false; narrative, report label, siteMetrics,
\* proteinPrediction, growthSeries and hasRunAnalysis keep the values they had
\* before the call, through its start, its wait and its failure.
C8_FailureKeepsResults ==
    [][ /\ lastAttempt'.outcome = "pending" =>
              UNCHANGED <<derivedVars, hasRunAnalysis>>
        /\ lastAttempt.outcome = "pending" /\ lastAttempt'.outcome = "failed" =>
              /\ error' = GENERIC_MESSAGE
              /\ isLoading' = FALSE
              /\ UNCHANGED <<derivedVars, hasRunAnalysis, locationText, coordinates>>
      ]_vars

\* A failed analysis after a successful one: the results are still there.
C8_Witness ==
    /\ lastAttempt.outcome = "failed"
    /\ error = GENERIC_MESSAGE
    /\ ~isLoading
    /\ hasRunAnalysis /\ siteMetrics # Null /\ proteinPrediction # Null

\* C9: whatever the shape of a response body that arrives, the analysis
\* completes without raising and without the error state: processing the body
\* never ends in the catch block, and the render of its results never throws.
C9_AnyBodyCompletes == lastAttempt.outcome # "threw" /\ view # "crashed"

\* C10 as stated: error is non-null only when the latest analysis attempt made
\* a request that failed.
C10_ErrorOnlyFromFailedRequest == error # Null => lastAttempt.outcome = "failed"

\* C10 amended: error is non-null in two cases only. It is the validation
\* message when the latest attempt was rejected for a blank location without
\* coordinates (no request is made), and it is the generic message when the
\* request of the latest attempt failed or the processing of its response
\* raised.
C10_ErrorCauses ==
    /\ error \in {Null, VALIDATION_MESSAGE, GENERIC_MESSAGE}
    /\ error = VALIDATION_MESSAGE => lastAttempt.outcome = "rejected"
    /\ error = GENERIC_MESSAGE => lastAttempt.outcome \in {"failed", "threw"}
    /\ lastAttempt.outcome \in {"rejected", "failed", "threw"} => error # Null

\* The banner without any request: a location of blanks only was submitted.
C10_Witness ==
    /\ error = VALIDATION_MESSAGE
    /\ lastAttempt.outcome = "rejected"
    /\ started = 0
    /\ inflight = {}

(***************************************************************************)
(* Properties: life of the derived values                                  *)
(***************************************************************************)
\* keyPoints of a render: extractKeyPoints(cleanMarkdownBold(phdReport)).
KeyPointsShown(report) == extractKeyPoints(cleanMarkdownBold(report))

\* C11 as stated: after a request has completed, successfully or not, the
\* metrics, the prediction, the growth series and the key points are those
\* computed for that request, never values left over from an earlier one. For
\* a request that failed nothing was computed, so none of the values may be
\* other than the initial one.
C11_NothingLeftOver ==
    lastAttempt.outcome \in {"failed", "threw"} =>
        /\ derivedVars = FreshDerived
        /\ KeyPointsShown(phdReport) = <<>>

\* C11 amended: a request that completes successfully replaces each of the
\* narrative, the report label, the metrics, the prediction and the growth
\* series (and with the narrative the key points) by what is computed from its
\* own response, absent or default included; a request that fails, or whose
\* response processing raises, recomputes nothing, and the values of the
\* last successful request persist beside the error message.
C11_FreshOnSuccessKeptOnFailure ==
    [][ \A call \in inflight \ inflight' :
            Live(call) =>
                \/ /\ lastAttempt' = [id |-> call.id, outcome |-> "succeeded"]
                   /\ \E data \in ResponseBodies :
                         /\ derivedVars' = DerivedValues(Derive(data, call.location))
                         /\ ~RenderThrows(phdReport') =>
                               KeyPointsShown(phdReport') =
                                   KeyPointsShown(Derive(data, call.location).phdReport)
                \/ /\ lastAttempt'.id = call.id
                   /\ lastAttempt'.outcome \in {"failed", "threw"}
                   /\ UNCHANGED derivedVars
      ]_vars

\* The second analysis of an instance has succeeded with a response without
\* metrics: none are held.
C11_Witness ==
    /\ instance = 1 /\ started = 2
    /\ lastAttempt = [id |-> 2, outcome |-> "succeeded"]
    /\ siteMetrics = Null
    /\ proteinPrediction # Null

(***************************************************************************)
(* Properties: extractKeyPoints                                            *)
(***************************************************************************)
RECURSIVE IsSubsequence(_, _)
\* The elements of a occur in b, in the order of a.
IsSubsequence(a, b) ==
    IF Len(a) = 0 THEN TRUE
    ELSE IF Len(b) = 0 THEN FALSE
    ELSE IF Head(a) = Head(b) THEN IsSubsequence(Tail(a), Tail(b))
    ELSE IsSubsequence(a, Tail(b))

\* What each line of the text would give as an item, line by line.
LineItems(text) ==
    [i \in 1..Len(SplitFrom(text, 1)) |-> Trim(StripMarkers(Trim(SplitFrom(text, 1)[i])))]

\* ret is the first up to six elements of candidates.
FirstSixOf(ret, candidates) ==
    /\ Len(ret) = Min(6, Len(candidates))
    /\ \A k \in 1..Len(ret) : ret[k] = candidates[k]

KeyPointsCalled == probe.fn = "extractKeyPoints" /\ probe.done

\* C12: extractKeyPoints returns at most 6 items for every text, in the order
\* of the lines they come from: the first up to six of the candidates it
\* chose (the bullets, or else all lines).
C12_AtMostSixInOrder ==
    KeyPointsCalled =>
        /\ Len(probe.ret) <= 6
        /\ IsSubsequence(probe.ret, LineItems(probe.arg.v))
        /\ \/ FirstSixOf(probe.ret, CleanedBulletsOf(RawLinesOf(probe.arg.v)))
           \/ FirstSixOf(probe.ret, FallbackLinesOf(RawLinesOf(probe.arg.v)))

\* A text with more than six bullets: six items came back.
C12_Witness ==
    /\ KeyPointsCalled
    /\ Len(CleanedBulletsOf(RawLinesOf(probe.arg.v))) > 6
    /\ Len(probe.ret) = 6

(***************************************************************************)
(* Properties: cleanMarkdownBold                                           *)
(***************************************************************************)
\* The text holds ** somewhere.
HasStars(s) == \E i \in 1..Len(s) : StarsAt(s, i)

CleanCalled == probe.fn = "cleanMarkdownBold" /\ probe.done

\* C13: cleanMarkdownBold is idempotent for every string (unpaired, adjacent
\* and odd runs of asterisks and line breaks included): cleaning its result
\* again changes nothing. A null, undefined or empty input gives the empty
\* string, and a string without ** is returned unchanged.
C13_Idempotent ==
    CleanCalled =>
        /\ cleanMarkdownBold(probe.ret) = probe.ret
        /\ ~Truthy(probe.arg) => probe.ret = Str(<<>>)
        /\ probe.arg.t = "string" /\ ~HasStars(probe.arg.v) => probe.ret = probe.arg

\* A pair of ** was removed and an unpaired ** is left in the result.
C13_Witness ==
    /\ CleanCalled
    /\ probe.arg.t = "string"
    /\ probe.ret # probe.arg
    /\ HasStars(probe.ret.v)


(***************************************************************************)
(* Properties: the downloaded report                                       *)
(***************************************************************************)
Downloaded == probe.fn = "handleDownloadReport"
Saved == Downloaded /\ probe.ret.outcome = "saved"

\* What handleDownloadReport does in the current state.
ReportNow ==
    ReportFor(LocationLabelOf(reportLocationLabel, locationText),
              cleanMarkdownBold(phdReport), phdReport, siteMetrics, proteinPrediction)

HeadingsOf(doc) == [i \in 1..Len(doc) |-> doc[i].heading]

\* The headings of the sections whose data the dashboard holds, in the fixed order.
ExpectedSections ==
    (IF siteMetrics # Null THEN <<"environment">> ELSE <<>>)
    \o (IF proteinPrediction # Null THEN <<"protein">> ELSE <<>>)
    \o (IF KeyPointsShown(phdReport) # <<>> THEN <<"recommendations">> ELSE <<>>)

\* The section a block is, by its heading and the number of its lines.
SectionKind(block) ==
    IF block.heading = <<"Environmental snapshot">> /\ Len(block.lines) = 4
    THEN "environment"
    ELSE IF block.heading = <<"Protein content band">> /\ Len(block.lines) = 3
    THEN "protein"
    ELSE IF /\ block.heading = <<"Key technical recommendations">>
            /\ Len(block.lines) = Len(KeyPointsShown(phdReport))
    THEN "recommendations"
    ELSE "other"

\* The document is the title, the location line and then the expected sections.
WellFormedDocument(doc) ==
    /\ Len(doc) = 2 + Len(ExpectedSections)
    /\ doc[1] = TitleBlock
    /\ doc[2].heading
         = <<"Location: ">> \o LocationLabelOf(reportLocationLabel, locationText).v
    /\ \A i \in 1..Len(ExpectedSections) : SectionKind(doc[i + 2]) = ExpectedSections[i]

MarkOthers(s) == [i \in 1..Len(s) |-> IF IsNameChar(s[i]) THEN s[i] ELSE "?"]

RECURSIVE Squeeze(_)
\* Each run of marks as one underscore.
Squeeze(s) ==
    IF s = <<>> THEN <<>>
    ELSE IF Head(s) # "?" THEN <<Head(s)>> \o Squeeze(Tail(s))
    ELSE IF Len(s) > 1 /\ s[2] = "?" THEN Squeeze(Tail(s))
    ELSE <<"_">> \o Squeeze(Tail(s))

\* The label of the report that was saved.
SavedLabel == LocationLabelOf(reportLocationLabel, locationText).v

\* The name is spirulina_site_report_<s>.pdf.
NameWith(name, s) == name = <<"spirulina_site_report_">> \o s \o <<".pdf">>

\* C15: the file is named spirulina_site_report_<s>.pdf, where <s> is the
\* location label with each run of characters other than letters, digits,
\* underscore and hyphen replaced by one underscore, so <s> holds only such
\* characters; an empty <s> is replaced by site (the label of a report is
\* never empty, so the dashboard never takes that branch).
C15_FileNameSanitized ==
    /\ FileNameOf(<<>>) = <<"spirulina_site_report_", "s", "i", "t", "e", ".pdf">>
    /\ Saved =>
          /\ NameWith(probe.ret.name, Squeeze(MarkOthers(SavedLabel)))
          /\ \A i \in 2..(Len(probe.ret.name) - 1) : IsNameChar(probe.ret.name[i])
          /\ SavedLabel # <<>>

\* A label with a hyphen, which is kept, and with runs of other characters.
C15_Witness ==
    /\ Saved
    /\ \E i \in 1..Len(SavedLabel) : SavedLabel[i] = "-"
    /\ \E i \in 1..Len(probe.ret.name) : probe.ret.name[i] = "-"
    /\ \E i \in 1..(Len(SavedLabel) - 1) :
          ~IsNameChar(SavedLabel[i]) /\ ~IsNameChar(SavedLabel[i + 1])

(***************************************************************************)
(* Properties: the tiers of extractProteinPrediction                       *)
(***************************************************************************)
\* The numbers the entries of the confidence vector coerce to.
CoercedEntries(payload) ==
    [i \in 1..Len(ConfidenceIn(payload).v) |-> ToNumber(ConfidenceIn(payload).v[i])]

\* Every entry of the vector coerces to a number.
AllNumeric(payload) ==
    \A i \in DOMAIN CoercedEntries(payload) : CoercedEntries(payload)[i].k # "nan"

\* What tier 2 and then tier 3 give.
LowerTiers(payload) ==
    IF Tier2Applies(payload) THEN BandTier(RawIn(payload).v)
    ELSE StatusTier(StatusIn(payload))

\* C16: tier 1 is applied only to a confidence that is a sequence of at least
\* 3 values which all coerce to numbers; when it is no sequence, is shorter, or
\* holds an element that does not coerce to a number, the result is that of
\* tier 2 and then tier 3.
C16_TierOneOnlyForNumericVectors ==
    ProteinCalled /\ ~(Tier1Applies(probe.arg) /\ AllNumeric(probe.arg)) =>
        probe.ret = LowerTiers(probe.arg)

\* vals[idx] is the greatest of the finite values, and the first one that great.
IsFirstMaximum(vals, idx) ==
    /\ IsFinite(vals[idx])
    /\ \A j \in DOMAIN vals :
          IsFinite(vals[j]) =>
              /\ vals[j].v <= vals[idx].v
              /\ j < idx => vals[j].v < vals[idx].v

\* Low, Medium, High for the positions 0, 1, 2 (idx counts from 1), High beyond.
LevelAt(idx) == IF idx = 1 THEN "Low" ELSE IF idx = 2 THEN "Medium" ELSE "High"

SomeFinite(vals) == \E i \in DOMAIN vals : IsFinite(vals[i])

\* C17: in tier 1, for every confidence vector of length >= 3 (with an entry
\* that is a finite number), the level is that of the position of the maximum,
\* the first one among equals and High from the fourth position on, and the
\* score is the maximum times 100 rounded to one decimal; values that are not
\* finite never count as the maximum.
C17_ArgmaxFirstOccurrence ==
    ProteinCalled /\ Tier1Applies(probe.arg) /\ SomeFinite(CoercedEntries(probe.arg)) =>
        \E idx \in DOMAIN CoercedEntries(probe.arg) :
            /\ IsFirstMaximum(CoercedEntries(probe.arg), idx)
            /\ probe.ret.level = LevelAt(idx)
            /\ probe.ret.score = RoundTo(CoercedEntries(probe.arg)[idx].v * 100, Scale \div 10)

\* biomass_prediction.biomass_prediction is absent: the key is missing or null.
BiomassAbsent(payload) == IsNullish(Get(BiomassOf(payload), "biomass_prediction"))

\* The band of v: the boundaries 30 and 70 belong to the upper band.
BandOf(v) ==
    IF v < 30 * Scale THEN "Low" ELSE IF v >= 70 * Scale THEN "High" ELSE "Medium"

\* C18: without an applicable confidence vector, a biomass_prediction that
\* coerces to a finite number v gives the band of v (Low below 30, Medium from
\* 30 and below 70, High from 70) with score 70; one that is absent or does
\* not coerce to a finite number leaves the result to tier 3.
C18_BandingOfFiniteValues ==
    ProteinCalled /\ ~Tier1Applies(probe.arg) =>
        IF ~BiomassAbsent(probe.arg) /\ IsFinite(RawIn(probe.arg))
        THEN probe.ret = [level |-> BandOf(RawIn(probe.arg).v), score |-> 70 * Scale]
        ELSE probe.ret = StatusTier(StatusIn(probe.arg))

\* C19: in tier 3, reached without a confidence vector of at least 3 entries
\* and without a biomass_prediction that coerces to a finite number,
\* cultivation_status INVALID gives (Low, 60), MARGINAL (Medium, 65), VALID
\* (High, 80), and every other value, a missing field included, gives null.
C19_StatusProxy ==
    ProteinCalled /\ ~Tier1Applies(probe.arg) /\ ~Tier2Applies(probe.arg) =>
        /\ StatusIn(probe.arg) = STATUS_INVALID =>
              probe.ret = [level |-> "Low", score |-> 60 * Scale]
        /\ StatusIn(probe.arg) = STATUS_MARGINAL =>
              probe.ret = [level |-> "Medium", score |-> 65 * Scale]
        /\ StatusIn(probe.arg) = STATUS_VALID =>
              probe.ret = [level |-> "High", score |-> 80 * Scale]
        /\ StatusIn(probe.arg) \notin {STATUS_INVALID, STATUS_MARGINAL, STATUS_VALID} =>
              probe.ret = Null

\* A vector of two entries and a biomass_prediction that is no number, with
\* status MARGINAL: tier 3 gave (Medium, 65).
C19_Witness ==
    /\ ProteinCalled
    /\ ConfidenceIn(probe.arg).t = "array"
    /\ Get(BiomassOf(probe.arg), "biomass_prediction") = STR_NA
    /\ StatusIn(probe.arg) = STATUS_MARGINAL
    /\ probe.ret = [level |-> "Medium", score |-> 65 * Scale]

(***************************************************************************)
(* Properties: the keys of extractSiteMetrics                              *)
(***************************************************************************)
\* The analysis object of a payload: the payload, or what its outer `analysis`
\* wrapper holds.
Unwrapped(payload) ==
    IF payload.t = "object" /\ "analysis" \in DOMAIN payload.v
    THEN payload.v["analysis"] ELSE payload

IsWrapped(payload) == Unwrapped(payload) # payload

\* The values under the accepted keys of one field, in priority order.
KeyValuesOf(payload, section, keys) ==
    [i \in 1..Len(keys) |-> Get(Get(Unwrapped(payload), section), keys[i])]

TemperatureIn(payload) == KeyValuesOf(payload, "climate", TemperatureKeys)
RadiationIn(payload) == KeyValuesOf(payload, "climate", RadiationKeys)
PhIn(payload) == KeyValuesOf(payload, "water_profile", PhKeys)
SalinityIn(payload) == KeyValuesOf(payload, "water_profile", SalinityKeys)

\* Every field is defined under one of its keys.
AllFieldsDefined(payload) ==
    /\ ~FieldAbsent(TemperatureIn(payload)) /\ ~FieldAbsent(RadiationIn(payload))
    /\ ~FieldAbsent(PhIn(payload)) /\ ~FieldAbsent(SalinityIn(payload))

\* The four numbers, each from the first defined key of its field.
FirstDefinedNumbers(payload) ==
    [temperature |-> ToNumber(FieldValue(TemperatureIn(payload))),
     ph |-> ToNumber(FieldValue(PhIn(payload))),
     radiation |-> ToNumber(FieldValue(RadiationIn(payload))),
     salinity |-> ToNumber(FieldValue(SalinityIn(payload)))]

AllFinite(numbers) ==
    /\ IsFinite(numbers.temperature) /\ IsFinite(numbers.radiation)
    /\ IsFinite(numbers.ph) /\ IsFinite(numbers.salinity)

\* C20: extractSiteMetrics takes each field from the first defined key of its
\* priority list (temperature, avg_temperature, T2M; solar_radiation,
\* radiation, ALLSKY_SFC_SW_DWN; initial_pH, ph, pH; salinity, SALINITY): a
\* later key is used only when every earlier key is undefined (missing or
\* null), and the result is the same whether climate and water_profile sit at
\* the root of the payload or inside an outer `analysis` wrapper.
C20_FirstDefinedKey ==
    MetricsCalled /\ AllFieldsDefined(probe.arg) =>
        IF AllFinite(FirstDefinedNumbers(probe.arg))
        THEN probe.ret = FirstDefinedNumbers(probe.arg)
        ELSE probe.ret = Null

\* Inside a wrapper, temperature is missing under its first key and is 28.5
\* under avg_temperature; the empty text under T2M, which would give 0, is not used.
C20_Witness ==
    /\ MetricsCalled
    /\ IsWrapped(probe.arg)
    /\ TemperatureIn(probe.arg) = <<Undef, Num(285 * (Scale \div 10)), Str(<<>>)>>
    /\ probe.ret # Null
    /\ probe.ret.temperature = Fin(285 * (Scale \div 10))

(***************************************************************************)
(* Properties: the two sets of extractKeyPoints                            *)
(***************************************************************************)
\* The trimmed lines of the text, blank ones included.
TrimmedLines(text) == [i \in 1..Len(SplitFrom(text, 1)) |-> Trim(SplitFrom(text, 1)[i])]

\* The line starts with *, with - or with digits followed by a point.
StartsAsBullet(line) ==
    /\ line # <<>>
    /\ \/ line[1] \in {"*", "-"}
       \/ \E n \in 1..(Len(line) - 1) :
             /\ \A k \in 1..n : IsDigit(line[k])
             /\ line[n + 1] = "."

\* The lines whose item has at least 5 characters: among the bullets, and among all.
SurvivingBullets(text) ==
    {i \in 1..Len(TrimmedLines(text)) :
        StartsAsBullet(TrimmedLines(text)[i]) /\ Len(LineItems(text)[i]) >= 5}
SurvivingLines(text) == {i \in 1..Len(TrimmedLines(text)) : Len(LineItems(text)[i]) >= 5}

\* The k-th smallest element of the set S of numbers.
NthOf(S, k) == CHOOSE i \in S : Cardinality({j \in S : j <= i}) = k

\* ret holds the items of the first up to six lines of S, in line order.
ItemsOfLines(ret, text, S) ==
    /\ Len(ret) = Min(6, Cardinality(S))
    /\ \A k \in 1..Len(ret) : ret[k] = LineItems(text)[NthOf(S, k)]

\* C21: extractKeyPoints uses the bullet lines (starting with *, - or digits
\* and a point) whose item, after marker stripping, has at least 5 characters
\* whenever there is one, and otherwise every line whose item has at least 5
\* characters: no other line appears beside a surviving bullet, and a text
\* whose bullets are all too short falls back to all lines.
C21_BulletsElseAllLines ==
    KeyPointsCalled =>
        IF SurvivingBullets(probe.arg.v) # {}
        THEN ItemsOfLines(probe.ret, probe.arg.v, SurvivingBullets(probe.arg.v))
        ELSE ItemsOfLines(probe.ret, probe.arg.v, SurvivingLines(probe.arg.v))

\* A text with a bullet that is too short and no other bullet: the items are
\* those of its other lines.
C21_Witness ==
    /\ KeyPointsCalled
    /\ \E i \in 1..Len(TrimmedLines(probe.arg.v)) : StartsAsBullet(TrimmedLines(probe.arg.v)[i])
    /\ SurvivingBullets(probe.arg.v) = {}
    /\ Len(probe.ret) >= 2

(***************************************************************************)
(* Properties: the growth heuristic                                        *)
(***************************************************************************)
TemperatureDeviation(metrics) == Abs(metrics.temperature.v - IDEAL_METRICS.temperature)
RadiationDeviation(metrics) == Abs(metrics.radiation.v - IDEAL_METRICS.radiation)

\* Metrics a deviates from the ideal at most as much as metrics b does.
DeviatesAtMost(a, b) ==
    /\ TemperatureDeviation(a) <= TemperatureDeviation(b)
    /\ RadiationDeviation(a) <= RadiationDeviation(b)

\* Day by day, series sa is at most series sb.
SeriesAtMost(sa, sb) == \A d \in 1..14 : sa[d].doublingTime <= sb[d].doublingTime

PresentCalled == GrowthCalled /\ probe.arg # Null

\* C22: the growth heuristic is monotone non-decreasing in the deviation from
\* the ideal: metrics A with |A.temperature - 30| and |A.radiation - 16| at
\* most those of metrics B have on every day 1..14 a doublingTime at most B's;
\* metrics exactly at the ideal have the base 1.8, and metrics that differ in
\* ph and salinity only have the same series.
C22_MonotoneInDeviation ==
    PresentCalled =>
        /\ \A a \in GrowthInputs :
              DeviatesAtMost(a, probe.arg) =>
                  SeriesAtMost(generateGrowthSeriesFromMetrics(a), probe.ret)
        /\ \A a \in GrowthInputs :
              (DeviatesAtMost(a, probe.arg) /\ DeviatesAtMost(probe.arg, a)) =>
                  generateGrowthSeriesFromMetrics(a) = probe.ret
        /\ (TemperatureDeviation(probe.arg) = 0 /\ RadiationDeviation(probe.arg) = 0) =>
              \A d \in 1..14 :
                  probe.ret[d].doublingTime
                      = RoundTo(18 * (Micro \div 10) + Seasonal[d], Micro \div 100)

\* Metrics colder than the ideal and off the ideal pH, with a slower series
\* than metrics closer to the ideal on the warm side.
C22_Witness ==
    /\ PresentCalled
    /\ probe.arg.temperature.v < IDEAL_METRICS.temperature
    /\ probe.arg.ph.v # IDEAL_METRICS.ph
    /\ \E a \in GrowthInputs :
          /\ a.temperature.v > IDEAL_METRICS.temperature
          /\ DeviatesAtMost(a, probe.arg)
          /\ generateGrowthSeriesFromMetrics(a)[1].doublingTime < probe.ret[1].doublingTime

(***************************************************************************)
(* Properties: the text input and the map                                  *)
(***************************************************************************)
\* The location text is one that a map click wrote (no typed text has the form).
TextOfMapClick == \E p \in SyncPoints : locationText = LatLngText(p)

\* The text of point p was submitted with the coordinates of point q.
SubmittedAs(call, p, q) == call.location = synthesizedLocation(LatLngText(p), q)

\* C23: the text and the map stay in sync: whenever coordinates are set and
\* the location text was written by a map click, the `Lat .., Lng ..` text
\* shows the selected coordinates, and no submitted location combines the
\* text of one point with the coordinates of another.
C23_TextShowsSelectedPoint ==
    /\ (view = "mounted" /\ coordinates # Null /\ TextOfMapClick)
          => locationText = LatLngText(coordinates)
    /\ \A call \in inflight : \A p, q \in SyncPoints : SubmittedAs(call, p, q) => p = q

(***************************************************************************)
(* Properties: coherence of the derived state                              *)
(***************************************************************************)
\* The locations an analysis may be submitted with.
SubmittedLocations ==
    {synthesizedLocation(text, coords) :
        text \in TextInputs \cup {LatLngText(p) : p \in Points},
        coords \in Points \cup {Null}}

DerivedNow ==
    <<phdReport, reportLocationLabel, siteMetrics, proteinPrediction, growthSeries>>

\* The five derived values are those that one response, processed without an
\* exception, gives.
FromOneResponse ==
    \E data \in ResponseBodies : \E location \in SubmittedLocations :
        /\ ~Derive(data, location).threw
        /\ DerivedNow = DerivedValues(Derive(data, location))

\* C24: in every reachable state the narrative, the report label,
\* siteMetrics, proteinPrediction and growthSeries come from one and the same
\* response: all are initial, or all are what one successfully processed
\* response gives; and growthSeries is the series generated from siteMetrics.
\* No outcome of an analysis leaves some updated and others stale.
C24_DerivedStateCoherent ==
    /\ DerivedNow = FreshDerived \/ FromOneResponse
    /\ hasRunAnalysis \/ DerivedNow = FreshDerived
    /\ growthSeries = generateGrowthSeriesFromMetrics(siteMetrics)

\* A second analysis has failed or raised after a first one gave metrics and a
\* series of its own: the results of the first are all still there.
C24_Witness ==
    /\ lastAttempt.id = 2
    /\ lastAttempt.outcome \in {"failed", "threw"}
    /\ siteMetrics # Null
    /\ growthSeries # DEFAULT_GROWTH_SERIES
    /\ Truthy(phdReport)

(***************************************************************************)
(* Properties: the loading state                                           *)
(***************************************************************************)
BlankSubmission == Len(Trim(locationText)) = 0 /\ coordinates = Null

\* A step sets isLoading only together with issuing one request of the mounted
\* instance.
LoadingOnlyWithRequest ==
    (~isLoading /\ isLoading') =>
        /\ started' = started + 1
        /\ \E call \in inflight' \ inflight : call.id = started' /\ call.instance = instance

\* A step in which the request of the mounted instance settles ends the loading
\* state, whatever the outcome.
SettledEndsLoading ==
    (\E call \in LiveCalls : call \notin inflight') =>
        /\ ~isLoading'
        /\ view' = "mounted" => lastAttempt'.outcome \in {"succeeded", "failed", "threw"}

\* With blank text and no coordinates no step issues a request or sets
\* isLoading, and a rejected submission sets the validation message only.
BlankIssuesNothing ==
    /\ (BlankSubmission /\ view = "mounted") =>
          /\ inflight' \subseteq inflight
          /\ started' = started
          /\ isLoading' => isLoading
    /\ (lastAttempt'.outcome = "rejected" /\ lastAttempt' # lastAttempt) =>
          /\ error' = VALIDATION_MESSAGE
          /\ UNCHANGED <<isLoading, inflight, started, DerivedNow, hasRunAnalysis,
                         locationText, coordinates>>

\* C25: every analysis leaves the loading state: isLoading becomes true only
\* when a request is issued and is true exactly while the request of the
\* mounted instance is pending; once that request resolves or rejects
\* isLoading is false again (success, network failure and an exception while
\* processing the response alike), so loading always leads to not loading;
\* a submission with blank text and no coordinates issues no request, never
\* sets isLoading and sets the validation message only.
C25_LoadingAlwaysEnds ==
    /\ [](isLoading <=> LiveCalls # {})
    /\ [][LoadingOnlyWithRequest /\ SettledEndsLoading /\ BlankIssuesNothing]_vars
    /\ (isLoading ~> ~isLoading)

\* The response of the second analysis raised while it was processed, and the
\* dashboard is not loading.
C25_Witness ==
    /\ view = "mounted"
    /\ lastAttempt = [id |-> 2, outcome |-> "threw"]
    /\ ~isLoading
    /\ error = GENERIC_MESSAGE
=============================================================================
